---- MODULE Spec2Model ----
(***************************************************************************)
(* A model of the WEBGSTBILL invoice / purchase lifecycle engine:          *)
(* the GST tax engine (gst_calculator.py, helpers.py), the sales invoice   *)
(* service (invoice_service.py), the master-data routes (products.py,      *)
(* customers.py, business.py) and the purchase routes (purchases.py).      *)
(* Every request handler is one atomic action: each request runs on its    *)
(* own session (database.get_db) and either commits or is discarded.  Two  *)
(* further sections split the invoice requests into their reads and their  *)
(* commit, to interleave two worker threads, and run successive calls on   *)
(* one session that is never rolled back.                                  *)
(***************************************************************************)
EXTENDS Integers, Sequences, FiniteSets, TLC

VARIABLES
    products,     \* products table: id -> row
    customers,    \* customers table: id -> row
    suppliers,    \* suppliers table: id -> row
    business,     \* the single business_profile row
    invoices,     \* invoices table with items, in creation order (index = id)
    purchases,    \* purchase_invoices table with items (index = id)
    edits,        \* number of master-data edits made so far (bounded)
    last,         \* response of the most recent request
    req,          \* body of a single POST /invoices request, when one is posed
    gst_in,       \* arguments of a direct calculate_gst call
    gst_out,      \* whether the call was made, and its result
    sessions      \* the database sessions open across steps, and what each holds

vars == <<products, customers, suppliers, business, invoices, purchases, edits,
          last, req, gst_in, gst_out, sessions>>

-----------------------------------------------------------------------------
(* Bounds of the model *)

\* the number of rows created plus master-data edits made in one behaviour
MaxOps == 2
\* the largest taxable amount of a direct calculate_gst call
MaxAmount == 120

\* rows created and edits made so far
OpsDone == Len(invoices) + Len(purchases) + edits

-----------------------------------------------------------------------------
(* Value domains *)

None == "None"

ProductIds == {1, 2}
CustomerIds == {1, 2}
\* ids a request may name: the existing rows and one id with no row
RequestProductIds == ProductIds \cup {3}
RequestCustomerIds == CustomerIds \cup {3}
SupplierIds == {1, 2}
RequestSupplierIds == SupplierIds \cup {3}

\* quantities and line counts of an invoice request
Quantities == {1, 2}
LineCounts == {1, 2}

StateCodes == {"29", "27"}

\* HSN codes as character sequences
HSN_A == <<"1", "0", "0", "1">>
HSN_B == <<"2", "0", "0", "2", "1", "0">>
\* a code with letters: ProductUpdate accepts it, validate_hsn_code does not
HSN_BAD == <<"A", "B", "1", "2">>
\* a well-formed code no product carries
HSN_C == <<"3", "0", "0", "3">>

DigitChars == {"0", "1", "2", "3", "4", "5", "6", "7", "8", "9"}

\* a GSTIN is its 2-digit state prefix followed by 13 further characters
GstinOf(state) == <<state, "ABCDE1234F1Z5">>
\* a NULL / empty GSTIN
NoGstin == <<>>
\* a NULL timestamp (days are numbered from 1)
NoTime == 0

ALLOWED_GST_RATES == {0, 5, 12, 18, 28}

-----------------------------------------------------------------------------
(* helpers.py *)

\* round(amount) on a Decimal: Decimal.__round__ without ndigits rounds to the
\* nearest integer, ties to the even one.  n / d is the exact value of the
\* Decimal, n >= 0, d > 0.
round_gst_amount(n, d) ==
    LET q == n \div d
        r == n % d
    IN  IF 2 * r < d THEN q
        ELSE IF 2 * r > d THEN q + 1
        ELSE IF q % 2 = 0 THEN q ELSE q + 1

\* Decimal(amount) * percentage / 100, percentage = pnum / pden
calculate_percentage(amount, pnum, pden) ==
    round_gst_amount(amount * pnum, 100 * pden)

-----------------------------------------------------------------------------
(* gst_calculator.py *)

\* faulty variant of calculate_gst: SGST is the rounded whole tax less CGST
calculate_gst_remainder(taxable_amount_paise, gst_rate, seller_state_code, buyer_state_code) ==
    IF seller_state_code = buyer_state_code
    THEN LET cgst == calculate_percentage(taxable_amount_paise, gst_rate, 2)
             sgst == calculate_percentage(taxable_amount_paise, gst_rate, 1) - cgst
         IN  [taxable_amount_paise |-> taxable_amount_paise,
              cgst_paise |-> cgst,
              sgst_paise |-> sgst,
              igst_paise |-> 0,
              total_tax_paise |-> cgst + sgst,
              total_amount_paise |-> taxable_amount_paise + cgst + sgst]
    ELSE LET igst == calculate_percentage(taxable_amount_paise, gst_rate, 1)
         IN  [taxable_amount_paise |-> taxable_amount_paise,
              cgst_paise |-> 0,
              sgst_paise |-> 0,
              igst_paise |-> igst,
              total_tax_paise |-> igst,
              total_amount_paise |-> taxable_amount_paise + igst]

\* faulty variant of calculate_gst: the whole tax is rounded once and then
\* divided between CGST and SGST
calculate_gst_whole_divided(taxable_amount_paise, gst_rate, seller_state_code, buyer_state_code) ==
    LET whole == calculate_percentage(taxable_amount_paise, gst_rate, 1)
    IN  IF seller_state_code = buyer_state_code
        THEN [taxable_amount_paise |-> taxable_amount_paise,
              cgst_paise |-> whole \div 2,
              sgst_paise |-> whole - (whole \div 2),
              igst_paise |-> 0,
              total_tax_paise |-> whole,
              total_amount_paise |-> taxable_amount_paise + whole]
        ELSE [taxable_amount_paise |-> taxable_amount_paise,
              cgst_paise |-> 0,
              sgst_paise |-> 0,
              igst_paise |-> whole,
              total_tax_paise |-> whole,
              total_amount_paise |-> taxable_amount_paise + whole]

calculate_gst(taxable_amount_paise, gst_rate, seller_state_code, buyer_state_code) ==
    IF seller_state_code = buyer_state_code
    THEN LET cgst == calculate_percentage(taxable_amount_paise, gst_rate, 2)
             sgst == calculate_percentage(taxable_amount_paise, gst_rate, 2)
         IN  [taxable_amount_paise |-> taxable_amount_paise,
              cgst_paise |-> cgst,
              sgst_paise |-> sgst,
              igst_paise |-> 0,
              total_tax_paise |-> cgst + sgst,
              total_amount_paise |-> taxable_amount_paise + cgst + sgst]
    ELSE LET igst == calculate_percentage(taxable_amount_paise, gst_rate, 1)
         IN  [taxable_amount_paise |-> taxable_amount_paise,
              cgst_paise |-> 0,
              sgst_paise |-> 0,
              igst_paise |-> igst,
              total_tax_paise |-> igst,
              total_amount_paise |-> taxable_amount_paise + igst]

calculate_line_item_tax(quantity, unit_price_paise, gst_rate, seller_state_code, buyer_state_code) ==
    calculate_gst(quantity * unit_price_paise, gst_rate, seller_state_code, buyer_state_code)

RECURSIVE SumField(_, _)
SumField(seq, f) ==
    IF seq = <<>> THEN 0 ELSE seq[1][f] + SumField(Tail(seq), f)

\* faulty variant of aggregate_invoice_taxes: IGST is left out of the totals
aggregate_invoice_taxes_without_igst(line_items) ==
    LET total_taxable == SumField(line_items, "taxable_amount_paise")
        total_cgst == SumField(line_items, "cgst_paise")
        total_sgst == SumField(line_items, "sgst_paise")
        total_igst == SumField(line_items, "igst_paise")
    IN  [taxable_amount_paise |-> total_taxable,
         cgst_paise |-> total_cgst,
         sgst_paise |-> total_sgst,
         igst_paise |-> total_igst,
         total_tax_paise |-> total_cgst + total_sgst,
         total_amount_paise |-> total_taxable + total_cgst + total_sgst]

aggregate_invoice_taxes(line_items) ==
    LET total_taxable == SumField(line_items, "taxable_amount_paise")
        total_cgst == SumField(line_items, "cgst_paise")
        total_sgst == SumField(line_items, "sgst_paise")
        total_igst == SumField(line_items, "igst_paise")
    IN  [taxable_amount_paise |-> total_taxable,
         cgst_paise |-> total_cgst,
         sgst_paise |-> total_sgst,
         igst_paise |-> total_igst,
         total_tax_paise |-> total_cgst + total_sgst + total_igst,
         total_amount_paise |-> total_taxable + total_cgst + total_sgst + total_igst]

-----------------------------------------------------------------------------
(* validators.py *)

validate_hsn_code(hsn) ==
    /\ Len(hsn) > 0
    /\ \A i \in 1..Len(hsn) : hsn[i] \in DigitChars
    /\ Len(hsn) \in {4, 6, 8}

\* validate_gstin accepts every stored GSTIN (the schemas only store
\* well-formed ones; the checksum toggle is off), so the prefix is returned
extract_state_code_from_gstin(gstin) ==
    IF gstin = NoGstin THEN None ELSE gstin[1]

-----------------------------------------------------------------------------
(* models/business.py, models/product.py *)

RECURSIVE ZeroPad(_, _)
ZeroPad(s, width) ==
    IF Len(s) >= width THEN s ELSE ZeroPad("0" \o s, width)

\* f"{prefix}{n:06d}"
FormatInvoiceNumber(prefix, n) == prefix \o ZeroPad(ToString(n), 6)

\* faulty variant of generate_invoice_number: the counter is not advanced
generate_invoice_number_stuck(b) ==
    [invoice_num |-> FormatInvoiceNumber(b.invoice_prefix, b.current_invoice_number),
     business |-> b]

\* faulty variant of generate_invoice_number: the counter is advanced twice
generate_invoice_number_twice(b) ==
    [invoice_num |-> FormatInvoiceNumber(b.invoice_prefix, b.current_invoice_number),
     business |-> [b EXCEPT !.current_invoice_number = @ + 2]]

\* BusinessProfile.generate_invoice_number: the number and the profile after
generate_invoice_number(b) ==
    [invoice_num |-> FormatInvoiceNumber(b.invoice_prefix, b.current_invoice_number),
     business |-> [b EXCEPT !.current_invoice_number = @ + 1]]

\* faulty variant of Product.reduce_stock: the quantity is taken whether or
\* not that much is in stock
reduce_stock_unchecked(product, quantity) ==
    [ok |-> TRUE,
     product |-> [product EXCEPT !.stock_quantity = @ - quantity]]

\* Product.reduce_stock: ok flag and the product after
reduce_stock(product, quantity) ==
    IF product.stock_quantity >= quantity
    THEN [ok |-> TRUE,
          product |-> [product EXCEPT !.stock_quantity = @ - quantity]]
    ELSE [ok |-> FALSE, product |-> product]

-----------------------------------------------------------------------------
(* services/invoice_service.py *)

Ok == [code |-> 201, detail |-> "created"]
Err(code, detail) == [code |-> code, detail |-> detail]

_validate_invoice_date(invoice_date, day) ==
    IF invoice_date > day THEN Err(400, "future_date") ELSE Ok

_validate_business_profile(b) ==
    IF b.state_code = "" \/ Len(b.state_code) # 2
    THEN Err(400, "business_state_code") ELSE Ok

_validate_customer_for_invoice(customer) ==
    IF customer.customer_type = "B2B"
    THEN IF customer.gstin = NoGstin THEN Err(400, "b2b_without_gstin")
         ELSE IF extract_state_code_from_gstin(customer.gstin) # customer.state_code
              THEN Err(400, "gstin_state_mismatch")
              ELSE Ok
    ELSE IF customer.gstin # NoGstin THEN Err(400, "b2c_with_gstin") ELSE Ok

_validate_product_for_invoice(product) ==
    IF product.gst_rate \notin ALLOWED_GST_RATES THEN Err(400, "invalid_gst_rate")
    ELSE IF ~validate_hsn_code(product.hsn_code) THEN Err(400, "invalid_hsn")
    ELSE IF product.price_paise < 0 THEN Err(400, "negative_price")
    ELSE Ok

\* Decimal(paise) / 100 as an exact decimal, held in thousandths of a rupee
\* (client totals are Decimals of any scale, so they are held the same way)
PaiseToRupees(paise) == paise * 10

NoClientTotals == [given |-> FALSE, total_taxable_value |-> 0, total_gst |-> 0,
                   grand_total |-> 0]

\* faulty variant of _validate_client_totals: a difference of up to one
\* paisa per field is let through
_validate_client_totals_lenient(client_totals, computed) ==
    IF ~client_totals.given THEN Ok
    ELSE LET Near(x, y) == x - y <= 10 /\ y - x <= 10
         IN  IF /\ Near(PaiseToRupees(computed.taxable_amount_paise),
                        client_totals.total_taxable_value)
                /\ Near(PaiseToRupees(computed.total_tax_paise), client_totals.total_gst)
                /\ Near(PaiseToRupees(computed.total_amount_paise),
                        client_totals.grand_total)
             THEN Ok
             ELSE Err(400, "totals_mismatch")

_validate_client_totals(client_totals, computed) ==
    IF ~client_totals.given THEN Ok
    ELSE LET taxable_rupees == PaiseToRupees(computed.taxable_amount_paise)
             gst_rupees == PaiseToRupees(computed.total_tax_paise)
             grand_rupees == PaiseToRupees(computed.total_amount_paise)
         IN  IF \/ taxable_rupees # client_totals.total_taxable_value
                \/ gst_rupees # client_totals.total_gst
                \/ grand_rupees # client_totals.grand_total
             THEN Err(400, "totals_mismatch")
             ELSE Ok

\* faulty variant of _create_customer_snapshot: the state code is read from
\* the GSTIN
_create_customer_snapshot_by_gstin(id, customer) ==
    [id |-> id, name |-> customer.name, gstin |-> customer.gstin,
     state_code |-> extract_state_code_from_gstin(customer.gstin)]

_create_customer_snapshot(id, customer) ==
    [id |-> id, name |-> customer.name, gstin |-> customer.gstin,
     state_code |-> customer.state_code]

_create_business_snapshot(b) ==
    [name |-> b.name, gstin |-> b.gstin, state_code |-> b.state_code]

\* faulty variant of the item loop: the stock of a line is checked before the
\* tax attributes of its product
RECURSIVE ProcessItemsStockFirst(_, _, _, _, _, _)
ProcessItemsStockFirst(items, k, sess, b, customer, acc) ==
    IF k > Len(items) THEN [res |-> Ok, sess |-> sess, items |-> acc]
    ELSE
      LET item_data == items[k]
          pid == item_data.product_id
          found == pid \in DOMAIN sess /\ sess[pid].is_active
      IN  IF ~found THEN [res |-> Err(404, "product_not_found"), sess |-> sess, items |-> acc]
          ELSE
            LET product == sess[pid]
                v == _validate_product_for_invoice(product)
            IN  IF v # Ok
                THEN [res |-> IF reduce_stock(product, item_data.quantity).ok
                              THEN v ELSE Err(400, "insufficient_stock"),
                      sess |-> sess, items |-> acc]
                ELSE
                  LET rs == reduce_stock(product, item_data.quantity)
                  IN  IF ~rs.ok
                      THEN [res |-> Err(400, "insufficient_stock"), sess |-> sess, items |-> acc]
                      ELSE
                        LET InvoiceItem(tax) ==
                                [product_id |-> pid,
                                 product_name |-> product.name,
                                 hsn_code |-> product.hsn_code,
                                 quantity |-> item_data.quantity,
                                 unit_price_paise |-> product.price_paise,
                                 gst_rate |-> product.gst_rate,
                                 taxable_amount_paise |-> tax.taxable_amount_paise,
                                 cgst_paise |-> tax.cgst_paise,
                                 sgst_paise |-> tax.sgst_paise,
                                 igst_paise |-> tax.igst_paise,
                                 gst_amount_paise |-> tax.total_tax_paise,
                                 total_paise |-> tax.total_amount_paise]
                            invoice_item ==
                                CHOOSE it \in
                                  {InvoiceItem(tax) : tax \in
                                     {calculate_line_item_tax(
                                          item_data.quantity, product.price_paise,
                                          product.gst_rate, b.state_code,
                                          customer.state_code)}} : TRUE
                        IN  CHOOSE out \in
                              {ProcessItemsStockFirst(items, k + 1, st[1], b, customer, st[2]) :
                                 st \in {<<[sess EXCEPT ![pid] = rs.product],
                                           Append(acc, invoice_item)>>}} : TRUE

\* A local variable of the code is bound once to the value assigned to it:
\* CHOOSE out \in {F(x) : x \in {v}} : TRUE is F of the value of v.
\*
\* The loop over invoice_data.items (lines 86-135) from line k on.  sess is
\* the products as the request's session sees them: a product object changed
\* by an earlier line is the one a later line reads.  Returns the first error
\* (or Ok), the session's products when the loop ended, and the items and
\* tax breakups built so far.
RECURSIVE ProcessItems(_, _, _, _, _, _)
ProcessItems(items, k, sess, b, customer, acc) ==
    IF k > Len(items) THEN [res |-> Ok, sess |-> sess, items |-> acc]
    ELSE
      LET item_data == items[k]
          pid == item_data.product_id
          found == pid \in DOMAIN sess /\ sess[pid].is_active
      IN  IF ~found THEN [res |-> Err(404, "product_not_found"), sess |-> sess, items |-> acc]
          ELSE
            LET product == sess[pid]
                v == _validate_product_for_invoice(product)
            IN  IF v # Ok THEN [res |-> v, sess |-> sess, items |-> acc]
                ELSE
                  LET rs == reduce_stock(product, item_data.quantity)
                  IN  IF ~rs.ok
                      THEN [res |-> Err(400, "insufficient_stock"), sess |-> sess, items |-> acc]
                      ELSE
                        LET InvoiceItem(tax) ==
                                [product_id |-> pid,
                                 product_name |-> product.name,
                                 hsn_code |-> product.hsn_code,
                                 quantity |-> item_data.quantity,
                                 unit_price_paise |-> product.price_paise,
                                 gst_rate |-> product.gst_rate,
                                 taxable_amount_paise |-> tax.taxable_amount_paise,
                                 cgst_paise |-> tax.cgst_paise,
                                 sgst_paise |-> tax.sgst_paise,
                                 igst_paise |-> tax.igst_paise,
                                 gst_amount_paise |-> tax.total_tax_paise,
                                 total_paise |-> tax.total_amount_paise]
                            invoice_item ==
                                CHOOSE it \in
                                  {InvoiceItem(tax) : tax \in
                                     {calculate_line_item_tax(
                                          item_data.quantity, product.price_paise,
                                          product.gst_rate, b.state_code,
                                          customer.state_code)}} : TRUE
                        IN  CHOOSE out \in
                              {ProcessItems(items, k + 1, st[1], b, customer, st[2]) :
                                 st \in {<<[sess EXCEPT ![pid] = rs.product],
                                           Append(acc, invoice_item)>>}} : TRUE

\* the TaxBreakup of a stored item (the breakup its fields were copied from)
ItemBreakup(it) ==
    [taxable_amount_paise |-> it.taxable_amount_paise,
     cgst_paise |-> it.cgst_paise,
     sgst_paise |-> it.sgst_paise,
     igst_paise |-> it.igst_paise,
     total_tax_paise |-> it.gst_amount_paise,
     total_amount_paise |-> it.total_paise]

\* date.today() / get_utc_now(), as a day number
Today == 2

\* create_invoice (lines 46-158) run on a session that sees the stored
\* products prods, customers custs and profile b.  Returns the response, the
\* line that raised (0 outside the loop), and what the session holds when the
\* function returns or raises: its products, its profile and the rows added.
create_invoice(prods, custs, b, invoice_data) ==
    LET Raise(e, k, sess) ==
            [res |-> e, line |-> k, products |-> sess, business |-> b, added |-> <<>>]
        d == _validate_invoice_date(invoice_data.invoice_date, Today)
        bp == _validate_business_profile(b)
        cid == invoice_data.customer_id
    IN  IF d # Ok THEN Raise(d, 0, prods)
        ELSE IF bp # Ok THEN Raise(bp, 0, prods)
        ELSE IF ~(cid \in DOMAIN custs /\ custs[cid].is_active)
             THEN Raise(Err(404, "customer_not_found"), 0, prods)
        ELSE
          LET customer == custs[cid]
              cv == _validate_customer_for_invoice(customer)
              place_of_supply ==
                  IF invoice_data.place_of_supply # None
                  THEN invoice_data.place_of_supply ELSE customer.state_code
          IN  IF cv # Ok THEN Raise(cv, 0, prods)
              ELSE IF place_of_supply # customer.state_code
                   THEN Raise(Err(400, "place_of_supply_mismatch"), 0, prods)
              ELSE
                LET AfterTotals(loop, invoice_totals) ==
                        LET tv == _validate_client_totals(invoice_data.client_totals,
                                                          invoice_totals)
                            gen == generate_invoice_number(b)
                            invoice ==
                                [invoice_number |-> gen.invoice_num,
                                 invoice_date |-> invoice_data.invoice_date,
                                 place_of_supply |-> place_of_supply,
                                 status |-> "FINAL",
                                 customer_id |-> cid,
                                 customer_snapshot |-> _create_customer_snapshot(cid, customer),
                                 business_snapshot |-> _create_business_snapshot(b),
                                 finalized_at |-> Today,
                                 subtotal_paise |-> invoice_totals.taxable_amount_paise,
                                 cgst_paise |-> invoice_totals.cgst_paise,
                                 sgst_paise |-> invoice_totals.sgst_paise,
                                 igst_paise |-> invoice_totals.igst_paise,
                                 total_paise |-> invoice_totals.total_amount_paise,
                                 total_taxable_value_paise |-> invoice_totals.taxable_amount_paise,
                                 total_gst_paise |-> invoice_totals.total_tax_paise,
                                 grand_total_paise |-> invoice_totals.total_amount_paise,
                                 round_off_paise |-> 0,
                                 is_cancelled |-> FALSE,
                                 cancelled_at |-> NoTime,
                                 cancellation_reason |-> None,
                                 items |-> loop.items]
                        IN  IF tv # Ok THEN Raise(tv, 0, loop.sess)
                            ELSE [res |-> Ok, line |-> 0, products |-> loop.sess,
                                  business |-> gen.business, added |-> <<invoice>>]
                    AfterLoop(loop) ==
                        IF loop.res # Ok
                        THEN Raise(loop.res, Len(loop.items) + 1, loop.sess)
                        ELSE CHOOSE out \in
                               {AfterTotals(loop, invoice_totals) : invoice_totals \in
                                  {aggregate_invoice_taxes(
                                       [i \in 1..Len(loop.items) |->
                                          ItemBreakup(loop.items[i])])}} : TRUE
                IN  CHOOSE out \in
                      {AfterLoop(loop) : loop \in
                         {ProcessItems(invoice_data.items, 1, prods, b, customer, <<>>)}} :
                      TRUE

\* faulty variant of Invoice.cancel: the status spelling of purchase invoices
InvoiceCancelAsPurchase(invoice, reason) ==
    [invoice EXCEPT !.is_cancelled = TRUE,
                    !.cancelled_at = Today,
                    !.cancellation_reason = reason,
                    !.status = "Cancelled"]

\* Invoice.cancel (models/invoice.py) followed by status = "CANCELLED"
InvoiceCancel(invoice, reason) ==
    [invoice EXCEPT !.is_cancelled = TRUE,
                    !.cancelled_at = Today,
                    !.cancellation_reason = reason,
                    !.status = "CANCELLED"]

\* faulty variant of the restore loop: one unit is returned per line
RECURSIVE RestoreStockPerLine(_, _, _)
RestoreStockPerLine(items, k, sess) ==
    IF k > Len(items) THEN sess
    ELSE LET item == items[k]
         IN  IF item.product_id \in DOMAIN sess
             THEN RestoreStockPerLine(items, k + 1,
                      [sess EXCEPT ![item.product_id].stock_quantity = @ + 1])
             ELSE RestoreStockPerLine(items, k + 1, sess)

\* the stock restore loop of cancel_invoice (lines 227-231) from item k on
RECURSIVE RestoreStock(_, _, _)
RestoreStock(items, k, sess) ==
    IF k > Len(items) THEN sess
    ELSE LET item == items[k]
         IN  IF item.product_id \in DOMAIN sess
             THEN RestoreStock(items, k + 1,
                      [sess EXCEPT ![item.product_id].stock_quantity = @ + item.quantity])
             ELSE RestoreStock(items, k + 1, sess)

\* faulty variant of cancel_invoice: no is_cancelled check
cancel_invoice_unchecked(prods, invs, invoice_id, reason) ==
    IF invoice_id \notin DOMAIN invs
    THEN [res |-> Err(404, "invoice_not_found"), products |-> prods, invoices |-> invs]
    ELSE [res |-> [code |-> 200, detail |-> "cancelled"],
          products |-> RestoreStock(invs[invoice_id].items, 1, prods),
          invoices |-> [invs EXCEPT ![invoice_id] = InvoiceCancel(@, reason)]]

\* cancel_invoice (lines 212-238)
cancel_invoice(prods, invs, invoice_id, reason) ==
    IF invoice_id \notin DOMAIN invs
    THEN [res |-> Err(404, "invoice_not_found"), products |-> prods, invoices |-> invs]
    ELSE IF invs[invoice_id].is_cancelled
         THEN [res |-> Err(400, "already_cancelled"), products |-> prods, invoices |-> invs]
         ELSE [res |-> [code |-> 200, detail |-> "cancelled"],
               products |-> RestoreStock(invs[invoice_id].items, 1, prods),
               invoices |-> [invs EXCEPT ![invoice_id] = InvoiceCancel(@, reason)]]

-----------------------------------------------------------------------------
(* database.py: the request-scoped session *)

\* db.commit(): what the session holds becomes the stored state
db_commit(stored, session) == session

\* faulty variant of get_db: closing the session writes what it holds
get_db_flushes(stored, session) == session

\* get_db: the session is closed when the request ends, and what it holds
\* uncommitted is discarded
get_db(stored, session) == stored

-----------------------------------------------------------------------------
(* Requests *)

Response(op, res, line) ==
    [op |-> op, code |-> res.code, detail |-> res.detail, line |-> line]

ItemInputs == [product_id : RequestProductIds, quantity : Quantities]

ItemLists == UNION {[1..n -> ItemInputs] : n \in LineCounts}

\* client_totals a caller may send, next to the totals the server computes
\* for the same lines: none, the same totals, and totals with one field off
\* by one paisa or by a tenth of a paisa
ClientTotalsFor(t) ==
    LET exact == [given |-> TRUE,
                  total_taxable_value |-> PaiseToRupees(t.taxable_amount_paise),
                  total_gst |-> PaiseToRupees(t.total_tax_paise),
                  grand_total |-> PaiseToRupees(t.total_amount_paise)]
    IN  {NoClientTotals, exact}
        \cup {[exact EXCEPT ![f] = @ + dd] :
                 f \in {"total_taxable_value", "total_gst", "grand_total"},
                 dd \in {10, 1}}

Reasons == {"r1", "r2"}

-----------------------------------------------------------------------------
(* State *)

\* the stored rows a fresh installation is seeded with
InitDb ==
    /\ products =
         [p \in ProductIds |->
            IF p = 1
            THEN [name |-> "n1", hsn_code |-> HSN_A, gst_rate |-> 5,
                  price_paise |-> 10, stock_quantity |-> 2, is_active |-> TRUE]
            ELSE [name |-> "n1", hsn_code |-> HSN_B, gst_rate |-> 18,
                  price_paise |-> 50, stock_quantity |-> 0, is_active |-> TRUE]]
    /\ suppliers =
         [c \in SupplierIds |->
            [state_code |-> IF c = 1 THEN "29" ELSE "27", is_active |-> TRUE]]
    /\ customers =
         [c \in CustomerIds |->
            IF c = 1
            THEN [name |-> "n1", customer_type |-> "B2C", gstin |-> NoGstin,
                  state_code |-> "29", is_active |-> TRUE]
            ELSE [name |-> "n1", customer_type |-> "B2B", gstin |-> GstinOf("27"),
                  state_code |-> "27", is_active |-> TRUE]]
    /\ business = [name |-> "n1", gstin |-> GstinOf("29"), state_code |-> "29",
                   invoice_prefix |-> "INV", current_invoice_number |-> 1]
    /\ invoices = <<>>
    /\ purchases = <<>>
    /\ edits = 0
    /\ last = [op |-> "none", code |-> 0, detail |-> "none", line |-> 0]

\* no single request posed
NoReq == [customer_id |-> 0, invoice_date |-> Today, place_of_supply |-> None,
          items |-> <<>>, client_totals |-> NoClientTotals]

\* no direct call made
NoCall == [amount |-> 0, rate |-> 0, seller |-> "29", buyer |-> "29"]
NoResult == [called |-> FALSE, breakup |-> calculate_gst(0, 0, "29", "29")]

\* no session outlives the request it serves
NoSessions == <<>>

Init ==
    /\ InitDb
    /\ req = NoReq
    /\ gst_in = NoCall
    /\ gst_out = NoResult
    /\ sessions = NoSessions

-----------------------------------------------------------------------------
(* api/invoices.py *)

\* POST /invoices with body invoice_data: commit on success, and the
\* session closed with its changes discarded on an HTTPException
CreateInvoiceWith(invoice_data) ==
    \E r \in {create_invoice(products, customers, business, invoice_data)} :
        /\ IF r.res = Ok
           THEN /\ products' = db_commit(products, r.products)
                /\ business' = db_commit(business, r.business)
                /\ invoices' = db_commit(invoices, invoices \o r.added)
           ELSE /\ products' = get_db(products, r.products)
                /\ business' = get_db(business, r.business)
                /\ invoices' = get_db(invoices, invoices \o r.added)
        /\ last' = Response("create_invoice", r.res, r.line)

\* the totals the server computes for the lines of a stored invoice
TotalsOf(invoice) ==
    aggregate_invoice_taxes(
        [i \in 1..Len(invoice.items) |-> ItemBreakup(invoice.items[i])])

\* the totals the server computes for a request (zero when it is rejected
\* before the totals are computed)
ServerTotals(invoice_data) ==
    CHOOSE t \in
      {IF r.res = Ok THEN TotalsOf(r.added[1]) ELSE aggregate_invoice_taxes(<<>>) :
         r \in {create_invoice(products, customers, business,
                    [invoice_data EXCEPT !.client_totals = NoClientTotals])}} : TRUE

RequestHeads ==
    [customer_id : RequestCustomerIds, invoice_date : {Today - 1, Today, Today + 1},
     place_of_supply : {None, "27"}, items : {<<>>},
     client_totals : {NoClientTotals}]

\* whether the request passes every validation of create_invoice
Accepted(invoice_data) ==
    create_invoice(products, customers, business, invoice_data).res = Ok

\* POST /invoices.  A request rejected before the item loop is rejected
\* whatever its items are, and one rejected in the loop whatever its
\* client_totals are, so those parts are drawn only where the code reads them.
CreateInvoice ==
    /\ OpsDone < MaxOps
    /\ \E head \in RequestHeads :
         IF ~Accepted(head)
         THEN CreateInvoiceWith(head)
         ELSE \E items \in ItemLists :
                \E body \in {[head EXCEPT !.items = items]} :
                  IF ~Accepted(body)
                  THEN CreateInvoiceWith(body)
                  ELSE \E ct \in ClientTotalsFor(ServerTotals(body)) :
                         CreateInvoiceWith([body EXCEPT !.client_totals = ct])
    /\ UNCHANGED <<customers, suppliers, purchases, edits, req, gst_in, gst_out, sessions>>

\* client_totals sent with a request whose order of checks is observed: none,
\* or totals whose grand total is a paisa high
WrongClientTotalsFor(t) ==
    {NoClientTotals,
     [given |-> TRUE,
      total_taxable_value |-> PaiseToRupees(t.taxable_amount_paise),
      total_gst |-> PaiseToRupees(t.total_tax_paise),
      grand_total |-> PaiseToRupees(t.total_amount_paise) + 10]}

\* lines of a posted invoice that each ask for two units: the whole stock of
\* product 1, so that a second line of it finds none left
PostItemLists == {l \in ItemLists : \A i \in DOMAIN l : l[i].quantity = 2}

\* POST /invoices, the first of a run, dated today or later, with every
\* combination of head, lines and client_totals; the body served is kept in req
PostInvoice ==
    /\ req = NoReq
    /\ \E head \in {h \in RequestHeads : h.invoice_date >= Today},
          items \in PostItemLists :
         \E body \in {[head EXCEPT !.items = items]} :
           \E ct \in WrongClientTotalsFor(ServerTotals(body)) :
             \E invoice_data \in {[body EXCEPT !.client_totals = ct]} :
                /\ req' = invoice_data
                /\ CreateInvoiceWith(invoice_data)
    /\ UNCHANGED <<customers, suppliers, purchases, edits, gst_in, gst_out, sessions>>

\* POST /invoices/{invoice_id}/cancel
CancelInvoice ==
    \E invoice_id \in 1..(Len(invoices) + 1), reason \in Reasons :
      \E r \in {cancel_invoice(products, invoices, invoice_id, reason)} :
          /\ IF r.res.code = 200
             THEN /\ products' = db_commit(products, r.products)
                  /\ invoices' = db_commit(invoices, r.invoices)
             ELSE /\ products' = get_db(products, r.products)
                  /\ invoices' = get_db(invoices, r.invoices)
          /\ last' = Response("cancel_invoice", r.res, 0)
          /\ UNCHANGED <<customers, suppliers, business, purchases, edits, req, gst_in, gst_out, sessions>>

-----------------------------------------------------------------------------
(* api/products.py, api/customers.py, api/business.py *)

\* model_dump(exclude_unset=True) followed by setattr for each field sent
ApplyPatch(row, patch) ==
    [f \in DOMAIN row |-> IF f \in DOMAIN patch THEN patch[f] ELSE row[f]]

\* the bodies a ProductUpdate request carries here; the schema checks ranges
\* and lengths only, so a rate outside the allowed set and a non-digit HSN
\* code are accepted
ProductPatches ==
    {("price_paise" :> 30) @@ ("name" :> "n2") @@ ("gst_rate" :> 12),
     ("gst_rate" :> 10),
     ("hsn_code" :> HSN_BAD) @@ ("is_active" :> TRUE)}

\* CustomerUpdate has no cross-field check of type, GSTIN and state code
CustomerPatches ==
    {("name" :> "n2"),
     ("customer_type" :> "B2B"),
     ("state_code" :> "29") @@ ("gstin" :> NoGstin) @@ ("customer_type" :> "B2C")}

\* faulty variant of BusinessProfileUpdate: state_code is one of its fields
BusinessPatchesWithState ==
    {("name" :> v) : v \in {"n2"}} \cup {("state_code" :> v) : v \in StateCodes}

\* BusinessProfileUpdate has no state_code, gstin or numbering field
BusinessPatches == {("name" :> v) : v \in {"n2"}}

NotFound(op) == [op |-> op, code |-> 404, detail |-> "not_found", line |-> 0]
Done(op) == [op |-> op, code |-> 200, detail |-> "ok", line |-> 0]

\* faulty variant of PUT /products: invoice items follow the product row
UpdateProductLive ==
    /\ OpsDone < MaxOps
    /\ \E product_id \in RequestProductIds, patch \in ProductPatches :
         IF product_id \notin DOMAIN products
         THEN /\ last' = NotFound("update_product")
              /\ UNCHANGED <<products, edits, invoices>>
         ELSE /\ products' = [products EXCEPT ![product_id] = ApplyPatch(@, patch)]
              /\ invoices' =
                   [i \in DOMAIN invoices |->
                      [invoices[i] EXCEPT !.items =
                         [k \in DOMAIN @ |->
                            IF @[k].product_id = product_id
                            THEN [@[k] EXCEPT
                                    !.product_name = products'[product_id].name,
                                    !.unit_price_paise = products'[product_id].price_paise]
                            ELSE @[k]]]]
              /\ edits' = edits + 1
              /\ last' = Done("update_product")
    /\ UNCHANGED <<customers, suppliers, business, purchases, req, gst_in, gst_out, sessions>>

\* PUT /products/{product_id}
UpdateProduct ==
    /\ OpsDone < MaxOps
    /\ \E product_id \in RequestProductIds, patch \in ProductPatches :
         IF product_id \notin DOMAIN products
         THEN /\ last' = NotFound("update_product")
              /\ UNCHANGED <<products, edits>>
         ELSE /\ products' = [products EXCEPT ![product_id] = ApplyPatch(@, patch)]
              /\ edits' = edits + 1
              /\ last' = Done("update_product")
    /\ UNCHANGED <<customers, suppliers, business, invoices, purchases, req, gst_in, gst_out, sessions>>

\* DELETE /products/{product_id}
DeleteProduct ==
    /\ OpsDone < MaxOps
    /\ \E product_id \in RequestProductIds :
         IF product_id \notin DOMAIN products
         THEN /\ last' = NotFound("delete_product")
              /\ UNCHANGED <<products, edits>>
         ELSE /\ products' = [products EXCEPT ![product_id].is_active = FALSE]
              /\ edits' = edits + 1
              /\ last' = Done("delete_product")
    /\ UNCHANGED <<customers, suppliers, business, invoices, purchases, req, gst_in, gst_out, sessions>>

\* PUT /customers/{customer_id}
UpdateCustomer ==
    /\ OpsDone < MaxOps
    /\ \E customer_id \in RequestCustomerIds, patch \in CustomerPatches :
         IF customer_id \notin DOMAIN customers
         THEN /\ last' = NotFound("update_customer")
              /\ UNCHANGED <<customers, edits>>
         ELSE /\ customers' = [customers EXCEPT ![customer_id] = ApplyPatch(@, patch)]
              /\ edits' = edits + 1
              /\ last' = Done("update_customer")
    /\ UNCHANGED <<products, suppliers, business, invoices, purchases, req, gst_in, gst_out, sessions>>

\* DELETE /customers/{customer_id} and PATCH /customers/{customer_id}/deactivate
DeleteCustomer ==
    /\ OpsDone < MaxOps
    /\ \E customer_id \in RequestCustomerIds :
         IF customer_id \notin DOMAIN customers
         THEN /\ last' = NotFound("delete_customer")
              /\ UNCHANGED <<customers, edits>>
         ELSE /\ customers' = [customers EXCEPT ![customer_id].is_active = FALSE]
              /\ edits' = edits + 1
              /\ last' = Done("delete_customer")
    /\ UNCHANGED <<products, suppliers, business, invoices, purchases, req, gst_in, gst_out, sessions>>

\* PUT /business
UpdateBusiness ==
    /\ OpsDone < MaxOps
    /\ \E patch \in BusinessPatches :
         /\ business' = ApplyPatch(business, patch)
         /\ edits' = edits + 1
         /\ last' = Done("update_business_profile")
    /\ UNCHANGED <<products, customers, suppliers, invoices, purchases, req, gst_in, gst_out, sessions>>

-----------------------------------------------------------------------------
(* services/purchase_gst_calculator.py, api/purchases.py *)

\* A float quantity is held as a whole number of halves (0.5, 1, 1.5, ...):
\* such quantities and their products with paise amounts are exact in
\* binary floating point, and int() truncates toward zero.
calculate_purchase_item_tax(quantity2, unit_rate, gst_rate, supplier_state_code, business_state_code) ==
    LET subtotal == (quantity2 * unit_rate) \div 2
        is_same_state == supplier_state_code = business_state_code
        cgst_amount == IF gst_rate = 0 \/ ~is_same_state THEN 0
                       ELSE (subtotal * gst_rate) \div 200
        sgst_amount == cgst_amount
        igst_amount == IF gst_rate = 0 \/ is_same_state THEN 0
                       ELSE (subtotal * gst_rate) \div 100
    IN  [subtotal |-> subtotal,
         cgst_amount |-> cgst_amount,
         sgst_amount |-> sgst_amount,
         igst_amount |-> igst_amount,
         total_amount |-> subtotal + cgst_amount + sgst_amount + igst_amount,
         tax_type |-> IF gst_rate = 0 \/ is_same_state THEN "CGST_SGST" ELSE "IGST"]

\* the PurchaseItem built for one input line (create_purchase_invoice, 64-88)
PurchaseItemOf(item_input, supplier_state_code, business_state_code) ==
    LET item_tax == calculate_purchase_item_tax(item_input.quantity2, item_input.rate,
                        item_input.gst_rate, supplier_state_code, business_state_code)
    IN  [hsn_code |-> item_input.hsn_code,
         quantity2 |-> item_input.quantity2,
         rate |-> item_input.rate,
         gst_rate |-> item_input.gst_rate,
         taxable_value |-> item_tax.subtotal,
         gst_amount |-> item_tax.cgst_amount + item_tax.sgst_amount + item_tax.igst_amount,
         cgst_amount |-> item_tax.cgst_amount,
         sgst_amount |-> item_tax.sgst_amount,
         igst_amount |-> item_tax.igst_amount,
         total_amount |-> item_tax.total_amount,
         tax_type |-> item_tax.tax_type]

\* create_purchase_invoice (lines 33-112): the response and the row added
create_purchase_invoice(supps, b, purchase) ==
    IF ~(purchase.supplier_id \in DOMAIN supps /\ supps[purchase.supplier_id].is_active)
    THEN [res |-> Err(404, "supplier_not_found"), added |-> <<>>]
    ELSE
      LET supplier == supps[purchase.supplier_id]
          business_state_code == IF b.state_code # "" THEN b.state_code ELSE "29"
          items == [i \in 1..Len(purchase.items) |->
                      PurchaseItemOf(purchase.items[i], supplier.state_code,
                                     business_state_code)]
          cgst_total == SumField(items, "cgst_amount")
          sgst_total == SumField(items, "sgst_amount")
          igst_total == SumField(items, "igst_amount")
          subtotal_value == SumField(items, "taxable_value")
      IN  [res |-> Ok,
           added |-> <<[supplier_id |-> purchase.supplier_id,
                        purchase_date |-> purchase.purchase_date,
                        place_of_supply_code |-> supplier.state_code,
                        status |-> "Draft",
                        cancel_reason |-> None,
                        finalized_at |-> NoTime,
                        cancelled_at |-> NoTime,
                        total_quantity2 |-> SumField(items, "quantity2"),
                        subtotal_value |-> subtotal_value,
                        cgst_amount |-> cgst_total,
                        sgst_amount |-> sgst_total,
                        igst_amount |-> igst_total,
                        total_gst |-> cgst_total + sgst_total + igst_total,
                        total_amount |-> subtotal_value + cgst_total + sgst_total + igst_total,
                        items |-> items]>>]

\* db.query(Product).filter(hsn_code == hsn, is_active).first(): the ids of
\* the matching rows, of which the lowest is taken
ActiveWithHsn(prods, hsn) ==
    {p \in DOMAIN prods : prods[p].hsn_code = hsn /\ prods[p].is_active}

FirstId(ids) == CHOOSE p \in ids : \A q \in ids : p <= q

\* the stock update loop adding the quantity rounded up instead of truncated
RECURSIVE AddStockRoundedUp(_, _, _)
AddStockRoundedUp(items, k, sess) ==
    IF k > Len(items) THEN sess
    ELSE LET ids == ActiveWithHsn(sess, items[k].hsn_code)
         IN  IF ids # {}
             THEN AddStockRoundedUp(items, k + 1,
                      [sess EXCEPT ![FirstId(ids)].stock_quantity =
                                        @ + ((items[k].quantity2 + 1) \div 2)])
             ELSE AddStockRoundedUp(items, k + 1, sess)

\* the stock update loop of finalize_purchase (lines 201-207) from item k on
RECURSIVE AddStock(_, _, _)
AddStock(items, k, sess) ==
    IF k > Len(items) THEN sess
    ELSE LET ids == ActiveWithHsn(sess, items[k].hsn_code)
         IN  IF ids # {}
             THEN AddStock(items, k + 1,
                      [sess EXCEPT ![FirstId(ids)].stock_quantity =
                                        @ + (items[k].quantity2 \div 2)])
             ELSE AddStock(items, k + 1, sess)

\* finalize_purchase without its two status checks
finalize_purchase_any_status(prods, purs, purchase_id) ==
    IF purchase_id \notin DOMAIN purs
    THEN [res |-> Err(404, "purchase_not_found"), missing |-> {},
          products |-> prods, purchases |-> purs]
    ELSE [res |-> [code |-> 200, detail |-> "finalized"],
          missing |-> {},
          products |-> AddStock(purs[purchase_id].items, 1, prods),
          purchases |-> [purs EXCEPT ![purchase_id].status = "Finalized",
                                     ![purchase_id].finalized_at = Today]]

\* finalize_purchase stopping at the first line whose HSN code has no product
finalize_purchase_first_missing(prods, purs, purchase_id) ==
    LET Raise(e) == [res |-> e, missing |-> {}, products |-> prods, purchases |-> purs]
    IN  IF purchase_id \notin DOMAIN purs THEN Raise(Err(404, "purchase_not_found"))
        ELSE IF purs[purchase_id].status = "Finalized"
             THEN Raise(Err(400, "already_finalized"))
        ELSE IF purs[purchase_id].status = "Cancelled"
             THEN Raise(Err(400, "finalize_cancelled"))
        ELSE
          LET items == purs[purchase_id].items
              unmatched == {j \in 1..Len(items) :
                              ActiveWithHsn(prods, items[j].hsn_code) = {}}
          IN  IF unmatched # {}
              THEN [Raise(Err(400, "missing_products")) EXCEPT
                       !.missing = {items[CHOOSE j \in unmatched :
                                            \A k \in unmatched : j <= k].hsn_code}]
              ELSE [res |-> [code |-> 200, detail |-> "finalized"],
                    missing |-> {},
                    products |-> AddStock(items, 1, prods),
                    purchases |-> [purs EXCEPT ![purchase_id].status = "Finalized",
                                               ![purchase_id].finalized_at = Today]]

\* finalize_purchase (lines 170-216); `missing` is the set of HSN codes the
\* error detail names (sorted(set(missing_hsns)), lines 194-199)
finalize_purchase(prods, purs, purchase_id) ==
    LET Raise(e) == [res |-> e, missing |-> {}, products |-> prods, purchases |-> purs]
    IN  IF purchase_id \notin DOMAIN purs THEN Raise(Err(404, "purchase_not_found"))
        ELSE IF purs[purchase_id].status = "Finalized"
             THEN Raise(Err(400, "already_finalized"))
        ELSE IF purs[purchase_id].status = "Cancelled"
             THEN Raise(Err(400, "finalize_cancelled"))
        ELSE
          LET items == purs[purchase_id].items
              missing_hsns == {items[i].hsn_code : i \in
                                 {j \in 1..Len(items) :
                                    ActiveWithHsn(prods, items[j].hsn_code) = {}}}
          IN  IF missing_hsns # {}
              THEN [Raise(Err(400, "missing_products")) EXCEPT !.missing = missing_hsns]
              ELSE [res |-> [code |-> 200, detail |-> "finalized"],
                    missing |-> {},
                    products |-> AddStock(items, 1, prods),
                    purchases |-> [purs EXCEPT ![purchase_id].status = "Finalized",
                                               ![purchase_id].finalized_at = Today]]

\* cancel_purchase dropping the reason it was given
cancel_purchase_without_reason(purs, purchase_id, cancel_reason) ==
    IF purchase_id \notin DOMAIN purs
    THEN [res |-> Err(404, "purchase_not_found"), purchases |-> purs]
    ELSE IF purs[purchase_id].status = "Cancelled"
         THEN [res |-> Err(400, "already_cancelled"), purchases |-> purs]
         ELSE [res |-> [code |-> 200, detail |-> "cancelled"],
               purchases |-> [purs EXCEPT ![purchase_id].status = "Cancelled",
                                          ![purchase_id].cancelled_at = Today]]

\* cancel_purchase (lines 235-253)
cancel_purchase(purs, purchase_id, cancel_reason) ==
    IF purchase_id \notin DOMAIN purs
    THEN [res |-> Err(404, "purchase_not_found"), purchases |-> purs]
    ELSE IF purs[purchase_id].status = "Cancelled"
         THEN [res |-> Err(400, "already_cancelled"), purchases |-> purs]
         ELSE [res |-> [code |-> 200, detail |-> "cancelled"],
               purchases |-> [purs EXCEPT ![purchase_id].status = "Cancelled",
                                          ![purchase_id].cancel_reason = cancel_reason,
                                          ![purchase_id].cancelled_at = Today]]

PurchaseItemInputs ==
    {[hsn_code |-> HSN_B, quantity2 |-> 3, rate |-> 30, gst_rate |-> 5],
     [hsn_code |-> HSN_C, quantity2 |-> 2, rate |-> 10, gst_rate |-> 18]}

PurchaseItemLists == UNION {[1..n -> PurchaseItemInputs] : n \in LineCounts}

\* POST /api/purchases receiving the goods at once
CreatePurchaseAddingStock ==
    /\ OpsDone < MaxOps
    /\ \E supplier_id \in RequestSupplierIds, items \in PurchaseItemLists :
         \E r \in {create_purchase_invoice(suppliers, business,
                      [supplier_id |-> supplier_id, purchase_date |-> Today,
                       items |-> items])} :
             /\ purchases' = IF r.res = Ok THEN purchases \o r.added ELSE purchases
             /\ products' = IF r.res = Ok THEN AddStock(r.added[1].items, 1, products)
                             ELSE products
             /\ last' = Response("create_purchase", r.res, 0)
    /\ UNCHANGED <<customers, suppliers, business, invoices, edits,
                   req, gst_in, gst_out, sessions>>

\* POST /api/purchases
CreatePurchase ==
    /\ OpsDone < MaxOps
    /\ \E supplier_id \in RequestSupplierIds, items \in PurchaseItemLists :
         \E r \in {create_purchase_invoice(suppliers, business,
                      [supplier_id |-> supplier_id, purchase_date |-> Today,
                       items |-> items])} :
             /\ purchases' = IF r.res = Ok
                             THEN db_commit(purchases, purchases \o r.added)
                             ELSE get_db(purchases, purchases \o r.added)
             /\ last' = Response("create_purchase", r.res, 0)
    /\ UNCHANGED <<products, customers, suppliers, business, invoices, edits,
                   req, gst_in, gst_out, sessions>>

\* POST /api/purchases/{purchase_id}/finalize
FinalizePurchase ==
    \E purchase_id \in 1..(Len(purchases) + 1) :
      \E r \in {finalize_purchase(products, purchases, purchase_id)} :
          /\ IF r.res.code = 200
             THEN /\ products' = db_commit(products, r.products)
                  /\ purchases' = db_commit(purchases, r.purchases)
             ELSE /\ products' = get_db(products, r.products)
                  /\ purchases' = get_db(purchases, r.purchases)
          /\ last' = Response("finalize_purchase", r.res, 0) @@ [missing |-> r.missing]
          /\ UNCHANGED <<customers, suppliers, business, invoices, edits,
                         req, gst_in, gst_out, sessions>>

\* POST /api/purchases/{purchase_id}/cancel
CancelPurchase ==
    \E purchase_id \in 1..(Len(purchases) + 1), cancel_reason \in Reasons :
      \E r \in {cancel_purchase(purchases, purchase_id, cancel_reason)} :
          /\ purchases' = IF r.res.code = 200
                          THEN db_commit(purchases, r.purchases)
                          ELSE get_db(purchases, r.purchases)
          /\ last' = Response("cancel_purchase", r.res, 0)
          /\ UNCHANGED <<products, customers, suppliers, business, invoices, edits,
                         req, gst_in, gst_out, sessions>>

-----------------------------------------------------------------------------
(* services/report_service.py, api/reports.py *)

\* the dates a report period is drawn from
ReportDates == {Today - 1, Today, Today + 1}

\* order_by(Invoice.invoice_date, Invoice.invoice_number): the row ids by date
\* and, within a date, by id (the zero-padded numbers of one prefix rise with
\* the id)
RECURSIVE OrderByDateNumber(_, _)
OrderByDateNumber(invs, ids) ==
    IF ids = {} THEN <<>>
    ELSE LET first == CHOOSE i \in ids : \A j \in ids :
                          \/ invs[i].invoice_date < invs[j].invoice_date
                          \/ invs[i].invoice_date = invs[j].invoice_date /\ i <= j
         IN  <<first>> \o OrderByDateNumber(invs, ids \ {first})

\* one SalesRegisterRow (lines 76-106); amounts are the rupee values times
\* 100.  gst_val / 2 is taken as an integer division: the stored GST of an
\* invoice whose place of supply is the business state is CGST + SGST with
\* CGST = SGST, so the halves are whole paise.
SalesRegisterRow(inv, b) ==
    LET taxable_val == inv.total_taxable_value_paise
        gst_val == inv.total_gst_paise
        intra == inv.place_of_supply = b.state_code
    IN  [invoice_number |-> inv.invoice_number,
         invoice_date |-> inv.invoice_date,
         customer_name |-> inv.customer_snapshot.name,
         place_of_supply |-> inv.place_of_supply,
         taxable_value |-> taxable_val,
         cgst |-> IF intra THEN gst_val \div 2 ELSE 0,
         sgst |-> IF intra THEN gst_val \div 2 ELSE 0,
         igst |-> IF intra THEN 0 ELSE gst_val,
         total_gst |-> gst_val,
         grand_total |-> inv.grand_total_paise,
         status |-> inv.status]

\* generate_sales_register reading every row in the period, whatever its status
\* and whatever include_cancelled says
generate_sales_register_all_counted(invs, b, from_date, to_date, include_cancelled, customer_id) ==
    LET selected == {i \in DOMAIN invs :
                       /\ invs[i].invoice_date >= from_date
                       /\ invs[i].invoice_date <= to_date
                       /\ customer_id # 0 => invs[i].customer_id = customer_id}
        order == OrderByDateNumber(invs, selected)
        rows == [k \in 1..Len(order) |-> SalesRegisterRow(invs[order[k]], b)]
    IN  [from_date |-> from_date,
         to_date |-> to_date,
         rows |-> rows,
         summary |-> [total_taxable_value |-> SumField(rows, "taxable_value"),
                      total_cgst |-> SumField(rows, "cgst"),
                      total_sgst |-> SumField(rows, "sgst"),
                      total_igst |-> SumField(rows, "igst"),
                      total_gst |-> SumField(rows, "total_gst"),
                      total_grand_total |-> SumField(rows, "grand_total"),
                      count_invoices |-> Len(rows),
                      count_cancelled |->
                          Len(SelectSeq(rows, LAMBDA row : row.status = "CANCELLED"))]]

\* generate_sales_register (lines 35-140); `if customer_id:` takes None and 0
\* alike as no filter, written 0 here
generate_sales_register(invs, b, from_date, to_date, include_cancelled, customer_id) ==
    LET selected == {i \in DOMAIN invs :
                       /\ invs[i].invoice_date >= from_date
                       /\ invs[i].invoice_date <= to_date
                       /\ invs[i].status \in {"FINAL", "CANCELLED"}
                       /\ customer_id # 0 => invs[i].customer_id = customer_id}
        order == OrderByDateNumber(invs, selected)
        rows == [k \in 1..Len(order) |-> SalesRegisterRow(invs[order[k]], b)]
        counted == SelectSeq(rows, LAMBDA row :
                                      row.status # "CANCELLED" \/ include_cancelled)
    IN  [from_date |-> from_date,
         to_date |-> to_date,
         rows |-> rows,
         summary |-> [total_taxable_value |-> SumField(counted, "taxable_value"),
                      total_cgst |-> SumField(counted, "cgst"),
                      total_sgst |-> SumField(counted, "sgst"),
                      total_igst |-> SumField(counted, "igst"),
                      total_gst |-> SumField(counted, "total_gst"),
                      total_grand_total |-> SumField(counted, "grand_total"),
                      count_invoices |-> Len(rows),
                      count_cancelled |->
                          Len(SelectSeq(rows, LAMBDA row : row.status = "CANCELLED"))]]

\* GET /api/reports/sales (api/reports.py, lines 38-64)
get_sales_register(invs, b, from_date, to_date, include_cancelled, customer_id) ==
    IF to_date < from_date
    THEN [code |-> 400, detail |-> "date_range", line |-> 0]
    ELSE [code |-> 200, detail |-> "report", line |-> 0,
          report |-> generate_sales_register(invs, b, from_date, to_date,
                                             include_cancelled, customer_id)]

SalesRegister ==
    /\ \E from_date \in ReportDates, to_date \in ReportDates,
          include_cancelled \in BOOLEAN, customer_id \in {0, 2} :
         \E r \in {get_sales_register(invoices, business, from_date, to_date,
                                      include_cancelled, customer_id)} :
             last' = [op |-> "sales_register",
                      args |-> [from_date |-> from_date, to_date |-> to_date,
                                include_cancelled |-> include_cancelled,
                                customer_id |-> customer_id]] @@ r
    /\ UNCHANGED <<products, customers, suppliers, business, invoices, purchases,
                   edits, req, gst_in, gst_out, sessions>>

\* the sum of a stored field over the rows with the given ids
RECURSIVE SumOver(_, _, _)
SumOver(rows, ids, f) ==
    IF ids = {} THEN 0
    ELSE LET i == CHOOSE j \in ids : TRUE
         IN  rows[i][f] + SumOver(rows, ids \ {i}, f)

\* the purchase rows a report query returns: purchase_date in the period and
\* PurchaseInvoice.status among the words the query names
PurchasesSelected(purs, from_date, to_date, statuses) ==
    {i \in DOMAIN purs :
        /\ purs[i].purchase_date >= from_date
        /\ purs[i].purchase_date <= to_date
        /\ purs[i].status \in statuses}

\* generate_purchase_register (lines 143-246).  The loop body reads
\* purchase.total_taxable_value_rupees and purchase.supplier_snapshot, which
\* PurchaseInvoice does not have: a selected row raises AttributeError.
generate_purchase_register(purs, b, from_date, to_date, include_cancelled, supplier_id) ==
    LET selected == {i \in PurchasesSelected(purs, from_date, to_date,
                                             {"FINAL", "CANCELLED"}) :
                        supplier_id # 0 => purs[i].supplier_id = supplier_id}
    IN  IF selected # {}
        THEN [code |-> 500, detail |-> "attribute_error", line |-> 0]
        ELSE [code |-> 200, detail |-> "report", line |-> 0,
              report |-> [from_date |-> from_date,
                          to_date |-> to_date,
                          rows |-> <<>>,
                          summary |-> [total_taxable_value |-> 0,
                                       total_input_cgst |-> 0,
                                       total_input_sgst |-> 0,
                                       total_input_igst |-> 0,
                                       total_input_gst |-> 0,
                                       total_grand_total |-> 0,
                                       count_purchases |-> Cardinality(selected),
                                       count_cancelled |-> 0]]]

\* generate_gst_summary (lines 249-333); amounts are the rupee values times
\* 100.  The purchase loop reads purchase.total_gst_rupees, which
\* PurchaseInvoice does not have: a selected purchase raises AttributeError.
generate_gst_summary(invs, purs, b, from_date, to_date) ==
    LET sales == {i \in DOMAIN invs :
                    /\ invs[i].invoice_date >= from_date
                    /\ invs[i].invoice_date <= to_date
                    /\ invs[i].status = "FINAL"}
        purchases_selected == PurchasesSelected(purs, from_date, to_date, {"FINAL"})
        intra == {i \in sales : invs[i].place_of_supply = b.state_code}
        output_cgst == SumOver(invs, intra, "total_gst_paise") \div 2
        output_sgst == SumOver(invs, intra, "total_gst_paise") \div 2
        output_igst == SumOver(invs, sales \ intra, "total_gst_paise")
    IN  IF purchases_selected # {}
        THEN [code |-> 500, detail |-> "attribute_error", line |-> 0]
        ELSE [code |-> 200, detail |-> "report", line |-> 0,
              report |-> [output_gst |-> [cgst |-> output_cgst,
                                          sgst |-> output_sgst,
                                          igst |-> output_igst,
                                          total |-> output_cgst + output_sgst + output_igst],
                          input_gst |-> [cgst |-> 0, sgst |-> 0, igst |-> 0, total |-> 0],
                          sales_count |-> Cardinality(sales),
                          purchase_count |-> Cardinality(purchases_selected)]]

\* GET /api/reports/purchases (api/reports.py, lines 67-93)
get_purchase_register(purs, b, from_date, to_date, include_cancelled, supplier_id) ==
    IF to_date < from_date
    THEN [code |-> 400, detail |-> "date_range", line |-> 0]
    ELSE generate_purchase_register(purs, b, from_date, to_date,
                                    include_cancelled, supplier_id)

PurchaseRegister ==
    /\ \E from_date \in ReportDates, to_date \in ReportDates,
          include_cancelled \in BOOLEAN, supplier_id \in {0, 2} :
         \E r \in {get_purchase_register(purchases, business, from_date, to_date,
                                         include_cancelled, supplier_id)} :
             last' = [op |-> "purchase_register",
                      args |-> [from_date |-> from_date, to_date |-> to_date,
                                include_cancelled |-> include_cancelled,
                                supplier_id |-> supplier_id]] @@ r
    /\ UNCHANGED <<products, customers, suppliers, business, invoices, purchases,
                   edits, req, gst_in, gst_out, sessions>>

\* report_service.generate_gst_summary(db, from_date, to_date)
GstSummary ==
    /\ \E from_date \in ReportDates, to_date \in ReportDates :
         \E r \in {generate_gst_summary(invoices, purchases, business,
                                        from_date, to_date)} :
             last' = [op |-> "gst_summary",
                      args |-> [from_date |-> from_date, to_date |-> to_date]] @@ r
    /\ UNCHANGED <<products, customers, suppliers, business, invoices, purchases,
                   edits, req, gst_in, gst_out, sessions>>

\* the FINAL invoices dated within a period (the query of the customer,
\* product-HSN and GSTR reports)
FinalInPeriod(invs, from_date, to_date) ==
    {i \in DOMAIN invs :
        /\ invs[i].invoice_date >= from_date
        /\ invs[i].invoice_date <= to_date
        /\ invs[i].status = "FINAL"}

\* generate_customer_report (lines 336-449); amounts are the rupee values
\* times 100, the rows a set (the code sorts them by customer_name).  Name,
\* type and GSTIN of a row are read from the Customer row as it is now
\* (lines 368-374).
generate_customer_report(invs, custs, b, from_date, to_date, customer_id) ==
    LET selected == {i \in FinalInPeriod(invs, from_date, to_date) :
                        customer_id # 0 => invs[i].customer_id = customer_id}
        Of(c) == {i \in selected : invs[i].customer_id = c}
        Intra(c) == {i \in Of(c) : invs[i].place_of_supply = b.state_code}
        cust_ids == {invs[i].customer_id : i \in selected} \cap DOMAIN custs
        B2B == {c \in cust_ids : custs[c].customer_type = "B2B"}
        counted == {i \in selected : invs[i].customer_id \in cust_ids}
    IN  [from_date |-> from_date,
         to_date |-> to_date,
         rows |-> {[customer_id |-> c,
                    customer_name |-> custs[c].name,
                    customer_type |-> custs[c].customer_type,
                    customer_gstin |-> custs[c].gstin,
                    total_invoices |-> Cardinality(Of(c)),
                    total_sales_value |-> SumOver(invs, Of(c), "grand_total_paise"),
                    total_taxable_value |->
                        SumOver(invs, Of(c), "total_taxable_value_paise"),
                    total_cgst |-> SumOver(invs, Intra(c), "total_gst_paise") \div 2,
                    total_sgst |-> SumOver(invs, Intra(c), "total_gst_paise") \div 2,
                    total_igst |-> SumOver(invs, Of(c) \ Intra(c), "total_gst_paise"),
                    total_gst_collected |-> SumOver(invs, Of(c), "total_gst_paise")]
                   : c \in cust_ids},
         summary |-> [total_customers |-> Cardinality(cust_ids),
                      total_invoices |-> Cardinality(selected),
                      b2b_sales |->
                          SumOver(invs, {i \in counted : invs[i].customer_id \in B2B},
                                  "grand_total_paise"),
                      b2c_sales |->
                          SumOver(invs, {i \in counted : invs[i].customer_id \notin B2B},
                                  "grand_total_paise"),
                      total_sales_value |-> SumOver(invs, counted, "grand_total_paise"),
                      total_taxable_value |->
                          SumOver(invs, counted, "total_taxable_value_paise"),
                      total_gst_collected |-> SumOver(invs, counted, "total_gst_paise")]]

\* the items of the selected invoices that the product-HSN report groups
\* under one product: pairs <<invoice id, line>>
ItemsOfProduct(invs, selected, p) ==
    {ij \in UNION {{<<i, j>> : j \in DOMAIN invs[i].items} : i \in selected} :
        invs[ij[1]].items[ij[2]].product_id = p}

RECURSIVE SumItems(_, _, _)
SumItems(invs, ijs, f) ==
    IF ijs = {} THEN 0
    ELSE LET ij == CHOOSE x \in ijs : TRUE
         IN  invs[ij[1]].items[ij[2]][f] + SumItems(invs, ijs \ {ij}, f)

\* generate_product_hsn_report (lines 566-648); amounts are the rupee values
\* times 100, the rows a set (the code sorts them by hsn_code).  The grouping
\* key (id, name, hsn_code, gst_rate, unit) is read from the Product row as
\* it is now (lines 596-600); unit is not among the modelled columns.
generate_product_hsn_report(invs, prods, from_date, to_date, product_id) ==
    LET selected == FinalInPeriod(invs, from_date, to_date)
        Items(p) == {ij \in ItemsOfProduct(invs, selected, p) :
                        product_id # 0 => p = product_id}
        prod_ids == {p \in DOMAIN prods : Items(p) # {}}
    IN  [from_date |-> from_date,
         to_date |-> to_date,
         rows |-> {[product_id |-> p,
                    product_name |-> prods[p].name,
                    hsn_code |-> prods[p].hsn_code,
                    gst_rate |-> prods[p].gst_rate,
                    quantity_sold |-> SumItems(invs, Items(p), "quantity"),
                    taxable_value |-> SumItems(invs, Items(p), "taxable_amount_paise"),
                    total_gst_collected |->
                        SumItems(invs, Items(p), "gst_amount_paise")]
                   : p \in prod_ids},
         summary |-> [total_products |-> Cardinality(prod_ids),
                      total_quantity |->
                          SumItems(invs, UNION {Items(p) : p \in prod_ids}, "quantity"),
                      total_taxable_value |->
                          SumItems(invs, UNION {Items(p) : p \in prod_ids},
                                   "taxable_amount_paise"),
                      total_gst_collected |->
                          SumItems(invs, UNION {Items(p) : p \in prod_ids},
                                   "gst_amount_paise")]]

-----------------------------------------------------------------------------
(* Requests served concurrently, each on its own session *)

\* A request served by a worker thread reads rows when its queries run and
\* writes when it commits.  The session's identity map keeps the first copy
\* of every row it loaded (autoflush is off and nothing expires a row before
\* the commit), so what the request computes is the service function applied
\* to the rows as it first read them; the commit writes the changed columns
\* with the values computed from those copies.
Workers == {1, 2}

NoBusiness == [name |-> "", gstin |-> NoGstin, state_code |-> "",
               invoice_prefix |-> "", current_invoice_number |-> 0]

NoResponse == [code |-> 0, detail |-> "none", line |-> 0]

\* pc: "idle", "lines" (create_invoice in its loop), "restore" (cancel_invoice
\* in its loop) or "done"; business, invs and seen are the rows the session
\* has loaded; k is the line the loop is at
IdleSession ==
    [pc |-> "idle", op |-> "none", data |-> NoReq, invoice_id |-> 0,
     reason |-> None, business |-> NoBusiness, invs |-> <<>>, seen |-> <<>>,
     k |-> 0, res |-> NoResponse]

\* the session is closed; the response and the request it answers remain
Finished(s, res, line) ==
    [IdleSession EXCEPT !.pc = "done", !.op = s.op, !.invoice_id = s.invoice_id,
                        !.res = [code |-> res.code, detail |-> res.detail,
                                 line |-> line]]

InFlight(w) == sessions[w].pc \in {"lines", "restore"}

\* bodies of the concurrent POST /invoices requests: dated today, for a
\* product in the table, without place_of_supply or client_totals
ConcurrentRequests ==
    {[customer_id |-> c, invoice_date |-> Today, place_of_supply |-> None,
      items |-> items, client_totals |-> NoClientTotals] :
        c \in CustomerIds,
        items \in {l \in ItemLists : \A i \in DOMAIN l : l[i].product_id \in ProductIds}}

\* create_invoice run on the rows read so far up to the end of line k: what
\* it has raised by then, if anything
RunTo(seen, b, invoice_data, k) ==
    create_invoice(seen, customers, b,
                   [invoice_data EXCEPT !.items = SubSeq(invoice_data.items, 1, k)])

\* Invoice.invoice_number is unique=True: the INSERT of a number that a
\* committed invoice carries fails
UniqueInvoiceNumberUnenforced(invs, number) == TRUE

UniqueInvoiceNumber(invs, number) ==
    \A i \in DOMAIN invs : invs[i].invoice_number # number

\* the UPDATE of the products a session changed: stock_quantity of every
\* product it loaded, set to the value the session computed
WriteStock(stored, sess) ==
    [p \in DOMAIN stored |->
       IF p \in DOMAIN sess
       THEN [stored[p] EXCEPT !.stock_quantity = sess[p].stock_quantity]
       ELSE stored[p]]

\* the row of product pid joins the identity map when it is first queried
Load(seen, pid, active_only) ==
    IF pid \in DOMAIN seen \/ pid \notin DOMAIN products
          \/ (active_only /\ ~products[pid].is_active)
    THEN seen
    ELSE (pid :> products[pid]) @@ seen

\* POST /invoices arrives: get_business reads the business row, then
\* create_invoice checks the date, the profile, the customer and the place of
\* supply (lines 49-80)
OpenCreate(w) ==
    /\ ~InFlight(w)
    /\ Len(invoices) + Cardinality({v \in Workers : sessions[v].pc = "lines"}) < MaxOps
    /\ \E invoice_data \in ConcurrentRequests :
         \E s \in {[IdleSession EXCEPT !.pc = "lines", !.op = "create_invoice",
                                       !.data = invoice_data, !.business = business,
                                       !.k = 1]} :
           \E r \in {RunTo(s.seen, s.business, invoice_data, 0)} :
              sessions' = [sessions EXCEPT ![w] =
                              IF r.res = Ok THEN s ELSE Finished(s, r.res, r.line)]
    /\ UNCHANGED <<products, customers, suppliers, business, invoices, purchases,
                   edits, last, req, gst_in, gst_out>>

\* one pass of the loop over the items (lines 86-135): the product is
\* queried, checked, its stock reduced on the session's copy
ReadLine(w) ==
    /\ sessions[w].pc = "lines"
    /\ sessions[w].k <= Len(sessions[w].data.items)
    /\ \E s \in {sessions[w]} :
         \E seen \in {Load(s.seen, s.data.items[s.k].product_id, TRUE)} :
           \E r \in {RunTo(seen, s.business, s.data, s.k)} :
              sessions' = [sessions EXCEPT ![w] =
                              IF r.res = Ok
                              THEN [s EXCEPT !.seen = seen, !.k = @ + 1]
                              ELSE Finished(s, r.res, r.line)]
    /\ UNCHANGED <<products, customers, suppliers, business, invoices, purchases,
                   edits, last, req, gst_in, gst_out>>

\* faulty variant of the commit of create_invoice: the number is drawn from
\* the counter as it is stored when the transaction commits, the stock from
\* the copies the session read
CommitCreateFreshNumber(w) ==
    /\ sessions[w].pc = "lines"
    /\ sessions[w].k > Len(sessions[w].data.items)
    /\ \E s \in {sessions[w]} :
         \E r \in {create_invoice(s.seen, customers, business, s.data)} :
            IF r.res # Ok
            THEN /\ sessions' = [sessions EXCEPT ![w] = Finished(s, r.res, r.line)]
                 /\ UNCHANGED <<products, business, invoices>>
            ELSE IF ~UniqueInvoiceNumber(invoices, r.added[1].invoice_number)
            THEN /\ sessions' = [sessions EXCEPT ![w] =
                                    Finished(s, Err(500, "integrity_error"), 0)]
                 /\ UNCHANGED <<products, business, invoices>>
            ELSE /\ products' = WriteStock(products, r.products)
                 /\ business' = [business EXCEPT !.current_invoice_number =
                                                     r.business.current_invoice_number]
                 /\ invoices' = invoices \o r.added
                 /\ sessions' = [sessions EXCEPT ![w] = Finished(s, r.res, 0)]
    /\ UNCHANGED <<customers, suppliers, purchases, edits, last, req, gst_in, gst_out>>

\* the totals, the number and db.commit() (lines 137-156): one transaction
\* that updates the products and the counter and inserts the invoice, or
\* fails as a whole on the unique invoice_number
CommitCreate(w) ==
    /\ sessions[w].pc = "lines"
    /\ sessions[w].k > Len(sessions[w].data.items)
    /\ \E s \in {sessions[w]} :
         \E r \in {create_invoice(s.seen, customers, s.business, s.data)} :
            IF r.res # Ok
            THEN /\ sessions' = [sessions EXCEPT ![w] = Finished(s, r.res, r.line)]
                 /\ UNCHANGED <<products, business, invoices>>
            ELSE IF ~UniqueInvoiceNumber(invoices, r.added[1].invoice_number)
            THEN /\ sessions' = [sessions EXCEPT ![w] =
                                    Finished(s, Err(500, "integrity_error"), 0)]
                 /\ UNCHANGED <<products, business, invoices>>
            ELSE /\ products' = WriteStock(products, r.products)
                 /\ business' = [business EXCEPT !.current_invoice_number =
                                                     r.business.current_invoice_number]
                 /\ invoices' = invoices \o r.added
                 /\ sessions' = [sessions EXCEPT ![w] = Finished(s, r.res, 0)]
    /\ UNCHANGED <<customers, suppliers, purchases, edits, last, req, gst_in, gst_out>>

\* POST /invoices/{invoice_id}/cancel arrives: the invoice is read and its
\* is_cancelled flag checked (lines 212-224)
OpenCancel(w) ==
    /\ ~InFlight(w)
    /\ \E invoice_id \in 1..(Len(invoices) + 1) :
         \E s \in {[IdleSession EXCEPT !.pc = "restore", !.op = "cancel_invoice",
                                       !.invoice_id = invoice_id, !.reason = "r1",
                                       !.invs = invoices, !.k = 1]} :
           \E r \in {cancel_invoice(s.seen, s.invs, invoice_id, s.reason)} :
              sessions' = [sessions EXCEPT ![w] =
                              IF r.res.code = 200 THEN s ELSE Finished(s, r.res, 0)]
    /\ UNCHANGED <<products, customers, suppliers, business, invoices, purchases,
                   edits, last, req, gst_in, gst_out>>

\* one pass of the restore loop (lines 227-231): the product of the item is
\* queried
RestoreLine(w) ==
    /\ sessions[w].pc = "restore"
    /\ sessions[w].k <= Len(sessions[w].invs[sessions[w].invoice_id].items)
    /\ \E s \in {sessions[w]} :
         sessions' = [sessions EXCEPT ![w] =
                         [s EXCEPT !.seen = Load(s.seen,
                                                 s.invs[s.invoice_id].items[s.k].product_id,
                                                 FALSE),
                                   !.k = @ + 1]]
    /\ UNCHANGED <<products, customers, suppliers, business, invoices, purchases,
                   edits, last, req, gst_in, gst_out>>

\* invoice.cancel(reason), the status and db.commit() (lines 233-235): the
\* products and the invoice are updated with the values of the session
CommitCancel(w) ==
    /\ sessions[w].pc = "restore"
    /\ sessions[w].k > Len(sessions[w].invs[sessions[w].invoice_id].items)
    /\ \E s \in {sessions[w]} :
         \E r \in {cancel_invoice(s.seen, s.invs, s.invoice_id, s.reason)} :
            /\ products' = WriteStock(products, r.products)
            /\ invoices' = [invoices EXCEPT ![s.invoice_id] = r.invoices[s.invoice_id]]
            /\ sessions' = [sessions EXCEPT ![w] = Finished(s, r.res, 0)]
    /\ UNCHANGED <<customers, suppliers, business, purchases, edits, last, req,
                   gst_in, gst_out>>

-----------------------------------------------------------------------------
(* One session shared by successive calls *)

\* create_sample_invoices.py and the test client (tests/conftest.py) pass one
\* session to every call and never roll it back.  sessions.products are the
\* Product objects of that session: a call that raises leaves on them what it
\* changed, a later query returns the same objects (autoflush is off, so the
\* query does not write them either), and the next commit writes every
\* changed object and leaves the session equal to the stored rows.
SharedSession(prods) == [products |-> prods]

\* invoice_service.create_invoice(db, ...) on the shared session
SharedCreateInvoice ==
    /\ OpsDone < MaxOps
    /\ \E invoice_data \in ConcurrentRequests :
         \E r \in {create_invoice(sessions.products, customers, business, invoice_data)} :
            /\ IF r.res = Ok
               THEN /\ products' = db_commit(products, r.products)
                    /\ business' = db_commit(business, r.business)
                    /\ invoices' = db_commit(invoices, invoices \o r.added)
               ELSE UNCHANGED <<products, business, invoices>>
            /\ sessions' = SharedSession(r.products)
            /\ last' = Response("create_invoice", r.res, r.line)
    /\ UNCHANGED <<customers, suppliers, purchases, edits, req, gst_in, gst_out>>

\* invoice_service.cancel_invoice(db, ...) on the shared session
SharedCancelInvoice ==
    /\ \E invoice_id \in 1..(Len(invoices) + 1), reason \in Reasons :
         \E r \in {cancel_invoice(sessions.products, invoices, invoice_id, reason)} :
            /\ IF r.res.code = 200
               THEN /\ products' = db_commit(products, r.products)
                    /\ invoices' = db_commit(invoices, r.invoices)
               ELSE UNCHANGED <<products, invoices>>
            /\ sessions' = SharedSession(r.products)
            /\ last' = Response("cancel_invoice", r.res, 0)
    /\ UNCHANGED <<customers, suppliers, business, purchases, edits, req, gst_in, gst_out>>

-----------------------------------------------------------------------------
(* Specifications *)

\* one POST /invoices request posed against the seeded rows
InitCreate ==
    /\ InitDb
    /\ \E head \in RequestHeads, items \in ItemLists :
         \E body \in {[head EXCEPT !.items = items]} :
             \E ct \in ClientTotalsFor(ServerTotals(body)) :
               req = [body EXCEPT !.client_totals = ct]
    /\ gst_in = NoCall
    /\ gst_out = NoResult
    /\ sessions = NoSessions

\* the posed request is served
ServeCreateInvoice ==
    /\ last.op = "none"
    /\ CreateInvoiceWith(req)
    /\ UNCHANGED <<customers, suppliers, purchases, edits, req, gst_in, gst_out, sessions>>

\* one direct call of calculate_gst posed
InitGst ==
    /\ InitDb
    /\ req = NoReq
    /\ gst_in \in [amount : 0..MaxAmount, rate : ALLOWED_GST_RATES,
                    seller : {"29"}, buyer : StateCodes]
    /\ gst_out = NoResult
    /\ sessions = NoSessions

\* the posed call is made
CalculateGst ==
    /\ ~gst_out.called
    /\ gst_out' = [called |-> TRUE,
                   breakup |-> calculate_gst(gst_in.amount, gst_in.rate,
                                             gst_in.seller, gst_in.buyer)]
    /\ UNCHANGED <<products, customers, suppliers, business, invoices,
                   purchases, edits, last, req, gst_in, sessions>>

Next ==
    \/ CreatePurchase
    \/ FinalizePurchase
    \/ CancelPurchase
    \/ CreateInvoice
    \/ CancelInvoice
    \/ UpdateProduct
    \/ DeleteProduct
    \/ UpdateCustomer
    \/ DeleteCustomer
    \/ UpdateBusiness

Spec == Init /\ [][Next]_vars

NextCreate == ServeCreateInvoice

SpecCreate == InitCreate /\ [][NextCreate]_vars

NextGst == CalculateGst

SpecGst == InitGst /\ [][NextGst]_vars

\* the purchases router, with the product deletion that decides which HSN
\* codes resolve to an active product
NextPurchases ==
    \/ CreatePurchase
    \/ FinalizePurchase
    \/ CancelPurchase
    \/ DeleteProduct

SpecPurchases == Init /\ [][NextPurchases]_vars

\* the sales register read between the requests that create and cancel
\* invoices
NextSalesRegister ==
    \/ CreateInvoice
    \/ CancelInvoice
    \/ SalesRegister

SpecSalesRegister == Init /\ [][NextSalesRegister]_vars

\* the purchase register and the GST summary read between the purchase
\* requests
NextPurchaseReports ==
    \/ CreatePurchase
    \/ FinalizePurchase
    \/ CancelPurchase
    \/ PurchaseRegister
    \/ GstSummary

SpecPurchaseReports == Init /\ [][NextPurchaseReports]_vars

\* the requests that move stock: invoices and purchases, no product edits
NextStock ==
    \/ CreateInvoice
    \/ CancelInvoice
    \/ CreatePurchase
    \/ FinalizePurchase
    \/ CancelPurchase

SpecStock == Init /\ [][NextStock]_vars

\* a script or a test opens one session on the seeded rows
InitShared ==
    /\ InitDb
    /\ req = NoReq
    /\ gst_in = NoCall
    /\ gst_out = NoResult
    /\ sessions = SharedSession(products)

NextShared ==
    \/ SharedCreateInvoice
    \/ SharedCancelInvoice

SpecShared == InitShared /\ [][NextShared]_vars

\* two worker threads, no request in flight
InitConcurrent ==
    /\ InitDb
    /\ req = NoReq
    /\ gst_in = NoCall
    /\ gst_out = NoResult
    /\ sessions = [w \in Workers |-> IdleSession]

\* POST /invoices requests served concurrently
NextConcurrentCreate ==
    \E w \in Workers :
       \/ OpenCreate(w)
       \/ ReadLine(w)
       \/ CommitCreate(w)

SpecConcurrentCreate == InitConcurrent /\ [][NextConcurrentCreate]_vars

\* POST /invoices requests served one at a time, and cancel requests served
\* concurrently with each other
NextConcurrentCancel ==
    \E w \in Workers :
       \/ (\A v \in Workers : ~InFlight(v)) /\ OpenCreate(w)
       \/ ReadLine(w)
       \/ CommitCreate(w)
       \/ (\A v \in Workers : sessions[v].pc # "lines") /\ OpenCancel(w)
       \/ RestoreLine(w)
       \/ CommitCancel(w)

SpecConcurrentCancel == InitConcurrent /\ [][NextConcurrentCancel]_vars

\* edits of the products and customers, then one POST /invoices that reads
\* them
NextPostInvoice ==
    \/ req = NoReq /\ UpdateProduct
    \/ req = NoReq /\ DeleteProduct
    \/ req = NoReq /\ UpdateCustomer
    \/ req = NoReq /\ DeleteCustomer
    \/ PostInvoice

SpecPostInvoice == Init /\ [][NextPostInvoice]_vars

-----------------------------------------------------------------------------
(* Properties of the sales invoice lifecycle *)

\* a step that stores a new invoice
InvoiceStored == Len(invoices') = Len(invoices) + 1

\* a POST /invoices request that was rejected
CreateRejected == last'.op = "create_invoice" /\ last'.code # 201

\* units of product p on the lines of an invoice
RECURSIVE QuantityOf(_, _)
QuantityOf(items, p) ==
    IF items = <<>> THEN 0
    ELSE (IF items[1].product_id = p THEN items[1].quantity ELSE 0)
         + QuantityOf(Tail(items), p)

\* C1: a create_invoice request rejected at any validation step, line 2 or
\* later and the totals comparison included, leaves every product's stock as
\* it was and stores no invoice and no invoice item.
C1_RejectedCreateStoresNothing ==
    [][CreateRejected => products' = products /\ invoices' = invoices]_vars

\* a request rejected for stock on its second line, after the first line
\* reduced the stock in the session
C1_RejectedAtSecondLine ==
    /\ last.op = "create_invoice"
    /\ last.detail = "insufficient_stock"
    /\ last.line = 2

\* the counter value an invoice number was formatted from (0 if none)
NumberValue(invoice_number) ==
    LET Formats(c) ==
            FormatInvoiceNumber(business.invoice_prefix, c) = invoice_number
    IN  CHOOSE c \in 0..business.current_invoice_number :
            IF \E d \in 1..business.current_invoice_number : Formats(d)
            THEN c >= 1 /\ Formats(c)
            ELSE c = 0

\* C2: invoice numbers are pairwise distinct, are the prefix followed by the
\* counter zero-padded to six digits, and rise by exactly one from each
\* invoice to the next created; a cancelled invoice keeps its number and no
\* other invoice carries it.
C2_NumbersDistinctConsecutive ==
    /\ \A i \in DOMAIN invoices :
         /\ NumberValue(invoices[i].invoice_number) >= 1
         /\ NumberValue(invoices[i].invoice_number) < business.current_invoice_number
         /\ Len(invoices[i].invoice_number) = Len(business.invoice_prefix) + 6
    /\ \A i, j \in DOMAIN invoices :
         i # j => invoices[i].invoice_number # invoices[j].invoice_number
    /\ \A i \in DOMAIN invoices :
         i + 1 \in DOMAIN invoices =>
            NumberValue(invoices[i + 1].invoice_number)
              = NumberValue(invoices[i].invoice_number) + 1

\* a second invoice created after the first was cancelled
C2_CreatedAfterCancel ==
    /\ Len(invoices) = 2
    /\ invoices[1].is_cancelled
    /\ last.op = "create_invoice"
    /\ last.code = 201

\* C3: a rejected create_invoice leaves current_invoice_number as it was;
\* the counter advances by exactly one in a step that stores an invoice,
\* whose number is formatted from the value before, and in no other step.
C3_CounterAdvancesOncePerInvoice ==
    [][IF InvoiceStored
       THEN /\ business'.current_invoice_number = business.current_invoice_number + 1
            /\ invoices'[Len(invoices')].invoice_number
                 = FormatInvoiceNumber(business.invoice_prefix,
                                       business.current_invoice_number)
       ELSE business'.current_invoice_number = business.current_invoice_number]_vars

\* a request rejected for its totals after one invoice was stored
C3_RejectedAfterCreated ==
    /\ Len(invoices) = 1
    /\ last.op = "create_invoice"
    /\ last.detail = "totals_mismatch"
    /\ business.current_invoice_number = 2

\* an invoice that a step cancels
Cancelled(i) ==
    /\ invoices[i].status = "FINAL"
    /\ invoices'[i].status = "CANCELLED"

C5_SecondCancelRejected ==
    [][/\ \A i \in DOMAIN invoices :
            invoices[i].status = "CANCELLED" => invoices'[i] = invoices[i]
       /\ (last'.op = "cancel_invoice" /\ last'.code # 200) =>
            products' = products /\ invoices' = invoices
       /\ (last'.op = "cancel_invoice" /\ last'.code = 200) =>
            \E i \in DOMAIN invoices :
               /\ Cancelled(i)
               /\ \A j \in DOMAIN invoices : j # i => invoices'[j] = invoices[j]]_vars

\* a second cancel was rejected
C5_CancelledTwice ==
    /\ last.op = "cancel_invoice"
    /\ last.code = 400
    /\ last.detail = "already_cancelled"
    /\ \E i \in DOMAIN invoices : invoices[i].status = "CANCELLED"

Frozen(invoice) ==
    [f \in DOMAIN invoice
           \ {"status", "is_cancelled", "cancelled_at", "cancellation_reason"}
       |-> invoice[f]]

\* C7: the amounts, number, customer and business snapshots and line items
\* of a stored invoice never change under any later operation.
C7_FrozenFieldsNeverChange ==
    [][\A i \in DOMAIN invoices :
          /\ i \in DOMAIN invoices'
          /\ Frozen(invoices'[i]) = Frozen(invoices[i])]_vars

\* a product was renamed and repriced after an invoice with it was stored
C7_ProductEditedAfterInvoice ==
    /\ last.op = "update_product"
    /\ last.code = 200
    /\ \E i \in DOMAIN invoices :
         LET item == invoices[i].items[1]
         IN  /\ item.product_name # products[item.product_id].name
             /\ item.unit_price_paise # products[item.product_id].price_paise

\* every validation of the posed request other than the totals one passes
OtherValidationsPass ==
    create_invoice(products, customers, business,
                   [req EXCEPT !.client_totals = NoClientTotals]).res = Ok

\* the posed client totals equal the server's, to the last digit
ClientTotalsEqual ==
    LET t == ServerTotals(req)
    IN  /\ req.client_totals.total_taxable_value = 10 * t.taxable_amount_paise
        /\ req.client_totals.total_gst = 10 * t.total_tax_paise
        /\ req.client_totals.grand_total = 10 * t.total_amount_paise

\* C8: when client_totals are supplied and every other validation passes,
\* create_invoice succeeds exactly when the supplied totals equal the
\* server's; any difference in any of the three fields is rejected.
C8_ClientTotalsExact ==
    [][(last'.op = "create_invoice" /\ req.client_totals.given
          /\ OtherValidationsPass) =>
         IF ClientTotalsEqual
         THEN /\ last'.code = 201
              /\ InvoiceStored
         ELSE /\ last'.code = 400
              /\ last'.detail = "totals_mismatch"
              /\ invoices' = invoices]_vars

\* a request whose grand total alone is one paisa high was rejected
C8_OnePaisaOff ==
    /\ last.op = "create_invoice"
    /\ last.detail = "totals_mismatch"
    /\ req.client_totals.given
    /\ LET t == ServerTotals(req)
       IN  /\ req.client_totals.total_taxable_value = 10 * t.taxable_amount_paise
           /\ req.client_totals.total_gst = 10 * t.total_tax_paise
           /\ req.client_totals.grand_total = 10 * t.total_amount_paise + 10

-----------------------------------------------------------------------------
(* Properties of the tax engine *)

\* C9 as stated: intra-state gives cgst = sgst and igst = 0; inter-state
\* gives cgst = sgst = 0 and igst > 0; at rate 0 all three are zero, and at
\* any other rate exactly one of cgst + sgst and igst is non-zero.
C9_AsStated ==
    gst_out.called =>
       LET t == gst_out.breakup
       IN  /\ gst_in.seller = gst_in.buyer =>
                t.cgst_paise = t.sgst_paise /\ t.igst_paise = 0
           /\ gst_in.seller # gst_in.buyer =>
                /\ t.cgst_paise = 0 /\ t.sgst_paise = 0
                /\ gst_in.rate # 0 => t.igst_paise > 0
           /\ gst_in.rate = 0 =>
                t.cgst_paise = 0 /\ t.sgst_paise = 0 /\ t.igst_paise = 0
           /\ gst_in.rate # 0 =>
                (t.cgst_paise + t.sgst_paise # 0) # (t.igst_paise # 0)

\* C9: intra-state gives cgst = sgst and igst = 0; inter-state gives
\* cgst = sgst = 0; never are both the CGST+SGST side and IGST non-zero;
\* at rate 0 all three are zero; and the side that applies is positive
\* whenever its exact value is more than half a paisa.
C9_SplitByStates ==
    gst_out.called =>
       LET t == gst_out.breakup
       IN  /\ t.cgst_paise >= 0 /\ t.sgst_paise >= 0 /\ t.igst_paise >= 0
           /\ gst_in.seller = gst_in.buyer =>
                /\ t.cgst_paise = t.sgst_paise /\ t.igst_paise = 0
                /\ gst_in.amount * gst_in.rate > 100 => t.cgst_paise > 0
           /\ gst_in.seller # gst_in.buyer =>
                /\ t.cgst_paise = 0 /\ t.sgst_paise = 0
                /\ gst_in.amount * gst_in.rate > 50 => t.igst_paise > 0
           /\ gst_in.rate = 0 =>
                t.cgst_paise = 0 /\ t.sgst_paise = 0 /\ t.igst_paise = 0

\* an inter-state call at a non-zero rate whose IGST is zero
C9_InterStateZeroIgst ==
    /\ gst_out.called
    /\ gst_in.seller # gst_in.buyer
    /\ gst_in.rate # 0
    /\ gst_in.amount > 0
    /\ gst_out.breakup.igst_paise = 0

\* n / d rounded to the nearest integer, a tie going up
RoundHalfUp(n, d) == (2 * n + d) \div (2 * d)

\* C10: every tax component is the exact percentage rounded to the nearest
\* paisa, with a value exactly halfway between two paise rounded up.
C10_RoundsHalfUp ==
    gst_out.called =>
       LET t == gst_out.breakup
           n == gst_in.amount * gst_in.rate
       IN  IF gst_in.seller = gst_in.buyer
           THEN /\ t.cgst_paise = RoundHalfUp(n, 200)
                /\ t.sgst_paise = RoundHalfUp(n, 200)
           ELSE t.igst_paise = RoundHalfUp(n, 100)

-----------------------------------------------------------------------------
(* Properties of stored invoice totals and place of supply *)

\* C11: on every stored invoice the taxable value, CGST, SGST, IGST, total
\* GST and grand total are the sums of the rounded fields stored on its
\* items, and grand total = taxable value + CGST + SGST + IGST.
C11_TotalsAreSumsOfItems ==
    \A i \in DOMAIN invoices :
       LET inv == invoices[i]
       IN  /\ inv.total_taxable_value_paise = SumField(inv.items, "taxable_amount_paise")
           /\ inv.subtotal_paise = SumField(inv.items, "taxable_amount_paise")
           /\ inv.cgst_paise = SumField(inv.items, "cgst_paise")
           /\ inv.sgst_paise = SumField(inv.items, "sgst_paise")
           /\ inv.igst_paise = SumField(inv.items, "igst_paise")
           /\ inv.total_gst_paise = SumField(inv.items, "gst_amount_paise")
           /\ inv.grand_total_paise = SumField(inv.items, "total_paise")
           /\ inv.total_paise = inv.grand_total_paise
           /\ inv.grand_total_paise
                = inv.total_taxable_value_paise + inv.cgst_paise
                  + inv.sgst_paise + inv.igst_paise

\* a stored two-line inter-state invoice whose total GST (the sum of the
\* rounded line taxes) differs from the tax on the summed taxable value
C11_SumDiffersFromRounding ==
    \E i \in DOMAIN invoices :
       LET inv == invoices[i]
       IN  /\ Len(inv.items) = 2
           /\ inv.items[1].gst_rate = inv.items[2].gst_rate
           /\ inv.total_gst_paise
                # calculate_gst(inv.total_taxable_value_paise, inv.items[1].gst_rate,
                                inv.business_snapshot.state_code,
                                inv.customer_snapshot.state_code).total_tax_paise

\* C12: a request whose explicit place_of_supply differs from the
\* customer's state_code is rejected, the customer's state_code is used when
\* none is given, and every stored invoice has place_of_supply equal to the
\* state_code of its customer snapshot.
C12_PlaceOfSupplyIsCustomerState ==
    /\ \A i \in DOMAIN invoices :
          invoices[i].place_of_supply = invoices[i].customer_snapshot.state_code
    /\ last.op = "create_invoice" =>
          /\ (/\ req.customer_id \in DOMAIN customers
              /\ req.place_of_supply # None
              /\ req.place_of_supply # customers[req.customer_id].state_code)
               => /\ last.code = 400
                  /\ invoices = <<>>
          /\ (last.code = 201 /\ req.place_of_supply = None)
               => invoices[1].place_of_supply = customers[req.customer_id].state_code

\* a request with a place of supply that is not the customer's state was
\* rejected for that
C12_MismatchRejected ==
    /\ last.op = "create_invoice"
    /\ last.detail = "place_of_supply_mismatch"
    /\ req.place_of_supply # customers[req.customer_id].state_code

-----------------------------------------------------------------------------
(* Properties of the purchase invoice lifecycle *)

PurchaseTransitions ==
    {<<"Draft", "Finalized">>, <<"Draft", "Cancelled">>, <<"Finalized", "Cancelled">>}

\* C13: a purchase invoice is created as Draft and its status only ever moves
\* Draft -> Finalized, Draft -> Cancelled or Finalized -> Cancelled; finalize
\* of a Finalized or Cancelled purchase and cancel of a Cancelled purchase are
\* rejected with 400 and change no purchase.
C13_PurchaseStatusTransitions ==
    [][/\ Len(purchases') >= Len(purchases)
       /\ \A i \in DOMAIN purchases' :
             IF i \in DOMAIN purchases
             THEN \/ purchases'[i].status = purchases[i].status
                  \/ <<purchases[i].status, purchases'[i].status>> \in PurchaseTransitions
             ELSE purchases'[i].status = "Draft"
       /\ \A i \in DOMAIN purchases :
             /\ purchases[i].status \in {"Finalized", "Cancelled"}
                  => LET r == finalize_purchase(products, purchases, i)
                     IN  r.res.code = 400 /\ r.purchases = purchases /\ r.products = products
             /\ purchases[i].status = "Cancelled"
                  => LET r == cancel_purchase(purchases, i, "r1")
                     IN  r.res.code = 400 /\ r.purchases = purchases
       /\ last'.op = "finalize_purchase"
             /\ last'.detail \in {"already_finalized", "finalize_cancelled"}
             => purchases' = purchases /\ products' = products /\ last'.code = 400
       /\ last'.op = "cancel_purchase" /\ last'.detail = "already_cancelled"
             => purchases' = purchases /\ last'.code = 400]_vars

\* a finalized purchase was cancelled, and a later finalize of it was rejected
C13_FinalizeAfterCancelRejected ==
    /\ last.op = "finalize_purchase"
    /\ last.detail = "finalize_cancelled"
    /\ \E i \in DOMAIN purchases :
          purchases[i].status = "Cancelled" /\ purchases[i].finalized_at # NoTime

\* the HSN codes on the lines of a purchase that no active product carries
MissingHsns(prods, purchase) ==
    {purchase.items[j].hsn_code : j \in
        {k \in 1..Len(purchase.items) :
            ~\E p \in DOMAIN prods :
                prods[p].is_active /\ prods[p].hsn_code = purchase.items[k].hsn_code}}

\* C14: finalizing a Draft purchase with at least one line whose HSN code
\* matches no active product is rejected with 400, the error names every
\* missing HSN code, the purchase stays Draft and no product stock changes;
\* a purchase only becomes Finalized when none of its codes is missing.
C14_MissingHsnRejectsFinalize ==
    [][/\ \A i \in DOMAIN purchases :
             purchases[i].status = "Draft" /\ MissingHsns(products, purchases[i]) # {}
             => LET r == finalize_purchase(products, purchases, i)
                IN  /\ r.res = Err(400, "missing_products")
                    /\ r.missing = MissingHsns(products, purchases[i])
                    /\ r.purchases = purchases
                    /\ r.products = products
       /\ last'.op = "finalize_purchase" /\ last'.detail = "missing_products"
             => /\ last'.code = 400
                /\ purchases' = purchases
                /\ products' = products
                /\ \E i \in DOMAIN purchases :
                      /\ purchases[i].status = "Draft"
                      /\ last'.missing # {}
                      /\ last'.missing = MissingHsns(products, purchases[i])
       /\ \A i \in DOMAIN purchases :
             purchases[i].status = "Draft" /\ purchases'[i].status = "Finalized"
             => MissingHsns(products, purchases[i]) = {}]_vars

\* a finalize was refused naming two missing codes, one of them the code of a
\* product that was deactivated after the purchase was recorded
C14_TwoCodesMissing ==
    /\ last.op = "finalize_purchase"
    /\ last.detail = "missing_products"
    /\ last.missing = {HSN_B, HSN_C}
    /\ \E i \in DOMAIN purchases :
          /\ purchases[i].status = "Draft"
          /\ MissingHsns(products, purchases[i]) = {HSN_B, HSN_C}

\* the stock the seeded products start with
SeededStock(p) == IF p = 1 THEN 2 ELSE 0

\* whole units received on the lines of a purchase that carry the HSN code
RECURSIVE UnitsReceived(_, _, _)
UnitsReceived(items, k, hsn) ==
    IF k > Len(items) THEN 0
    ELSE (IF items[k].hsn_code = hsn THEN items[k].quantity2 \div 2 ELSE 0)
         + UnitsReceived(items, k + 1, hsn)

RECURSIVE UnitsFinalized(_, _)
UnitsFinalized(k, hsn) ==
    IF k > Len(purchases) THEN 0
    ELSE (IF purchases[k].finalized_at # NoTime
          THEN UnitsReceived(purchases[k].items, 1, hsn) ELSE 0)
         + UnitsFinalized(k + 1, hsn)

\* C15: a successful finalize adds, for every line, the quantity truncated to
\* an integer to the stock of the active product carrying the line's HSN code
\* and sets the status to Finalized; over any sequence of purchase requests
\* the increase of each purchase is applied exactly once if it was ever
\* finalized and never otherwise (stock = seeded stock + the truncated
\* quantities of the purchases that were finalized, cancelled later or not).
C15_FinalizeAddsStockOnce ==
    /\ \A p \in DOMAIN products :
          products[p].stock_quantity
             = SeededStock(p) + UnitsFinalized(1, products[p].hsn_code)
    /\ \A i \in DOMAIN purchases :
          /\ purchases[i].status = "Finalized" => purchases[i].finalized_at # NoTime
          /\ purchases[i].status = "Draft" => purchases[i].finalized_at = NoTime
    /\ last.op = "finalize_purchase" /\ last.code = 200
          => \E i \in DOMAIN purchases :
                purchases[i].status = "Finalized" /\ purchases[i].finalized_at = Today

\* a purchase of two lines of 1.5 units each was finalized, cancelled and
\* refused a second finalize: the stock rose by 1 + 1, once
C15_TwoFractionalLinesOnce ==
    /\ last.op = "finalize_purchase"
    /\ last.detail = "finalize_cancelled"
    /\ Len(purchases) = 1
    /\ purchases[1].finalized_at # NoTime
    /\ Len(purchases[1].items) = 2
    /\ \A j \in 1..2 : purchases[1].items[j].quantity2 = 3
    /\ products[2].stock_quantity = 2

-----------------------------------------------------------------------------
(* Purchase line tax against the sales tax engine *)

\* C18: every stored purchase line with an integer quantity has the taxable
\* value, CGST, SGST, IGST and total that calculate_gst returns for
\* (quantity x rate, gst_rate, supplier state code, business state code),
\* each component rounded as calculate_gst rounds it.
C18_SameAsTaxEngine ==
    \A i \in DOMAIN purchases : \A j \in DOMAIN purchases[i].items :
       LET item == purchases[i].items[j]
           tax == calculate_gst((item.quantity2 \div 2) * item.rate, item.gst_rate,
                                purchases[i].place_of_supply_code, business.state_code)
       IN  item.quantity2 % 2 = 0
           => /\ item.taxable_value = tax.taxable_amount_paise
              /\ item.cgst_amount = tax.cgst_paise
              /\ item.sgst_amount = tax.sgst_paise
              /\ item.igst_amount = tax.igst_paise
              /\ item.total_amount = tax.total_amount_paise

-----------------------------------------------------------------------------
(* Properties of the reports *)

\* the sum of a stored field over a set of invoice ids
RECURSIVE SumOverInvoices(_, _)
SumOverInvoices(ids, f) ==
    IF ids = {} THEN 0
    ELSE LET i == CHOOSE j \in ids : TRUE
         IN  invoices[i][f] + SumOverInvoices(ids \ {i}, f)

\* the invoices a sales register of the last request has to show
InRegisterPeriod ==
    {i \in DOMAIN invoices :
        /\ invoices[i].status \in {"FINAL", "CANCELLED"}
        /\ last.args.from_date <= invoices[i].invoice_date
        /\ invoices[i].invoice_date <= last.args.to_date
        /\ last.args.customer_id # 0
              => invoices[i].customer_id = last.args.customer_id}

\* C19: the sales register has exactly one row for every FINAL and every
\* CANCELLED invoice dated within [from_date, to_date] (of the customer asked
\* for, if one is); with include_cancelled false its summary totals are the
\* sums over the FINAL rows only, with include_cancelled true the sums over
\* all rows, and count_cancelled is the number of CANCELLED rows.
C19_SalesRegisterRowsAndTotals ==
    last.op = "sales_register" /\ last.code = 200
    => LET rows == last.report.rows
           summary == last.report.summary
           Counted == {i \in InRegisterPeriod :
                          invoices[i].status = "FINAL" \/ last.args.include_cancelled}
       IN  /\ Len(rows) = Cardinality(InRegisterPeriod)
           /\ \A i \in InRegisterPeriod :
                 Cardinality({k \in DOMAIN rows :
                     /\ rows[k].invoice_number = invoices[i].invoice_number
                     /\ rows[k].status = invoices[i].status
                     /\ rows[k].invoice_date = invoices[i].invoice_date
                     /\ rows[k].taxable_value = invoices[i].total_taxable_value_paise
                     /\ rows[k].total_gst = invoices[i].total_gst_paise
                     /\ rows[k].grand_total = invoices[i].grand_total_paise}) = 1
           /\ summary.total_taxable_value
                 = SumOverInvoices(Counted, "total_taxable_value_paise")
           /\ summary.total_gst = SumOverInvoices(Counted, "total_gst_paise")
           /\ summary.total_grand_total = SumOverInvoices(Counted, "grand_total_paise")
           /\ summary.total_cgst + summary.total_sgst + summary.total_igst
                 = summary.total_gst
           /\ summary.count_invoices = Len(rows)
           /\ summary.count_cancelled
                 = Cardinality({k \in DOMAIN rows : rows[k].status = "CANCELLED"})
           /\ summary.count_cancelled
                 = Cardinality({i \in InRegisterPeriod : invoices[i].status = "CANCELLED"})

\* a register over yesterday and today, cancelled invoices not included, read
\* when yesterday's invoice is cancelled and today's is not: two rows, the
\* totals of one
C19_CancelledRowNotInTotals ==
    /\ last.op = "sales_register"
    /\ last.code = 200
    /\ last.args = [from_date |-> Today - 1, to_date |-> Today,
                    include_cancelled |-> FALSE, customer_id |-> 0]
    /\ Len(invoices) = 2
    /\ invoices[1].invoice_date = Today - 1
    /\ invoices[1].status = "CANCELLED"
    /\ invoices[2].invoice_date = Today
    /\ invoices[2].status = "FINAL"
    /\ Len(last.report.rows) = 2
    /\ last.report.summary.total_grand_total = invoices[2].grand_total_paise
    /\ last.report.summary.total_grand_total > 0

\* the purchases finalized and not cancelled, dated within the period of the
\* last report request
FinalizedInPeriod ==
    {i \in DOMAIN purchases :
        /\ purchases[i].status = "Finalized"
        /\ last.args.from_date <= purchases[i].purchase_date
        /\ purchases[i].purchase_date <= last.args.to_date}

\* C20: every purchase that finalize_purchase has finalized and that is not
\* cancelled, with purchase_date inside the period, is counted in the GST
\* summary's purchase_count, its total GST is part of the summary's input GST
\* and it is a row of the purchase register; Draft and Cancelled purchases
\* contribute nothing.
C20_FinalizedPurchasesReported ==
    /\ last.op = "gst_summary"
          => /\ last.code = 200
             /\ last.report.purchase_count = Cardinality(FinalizedInPeriod)
             /\ last.report.input_gst.total
                   = SumOver(purchases, FinalizedInPeriod, "total_gst")
    /\ last.op = "purchase_register" /\ last.code # 400 /\ last.args.supplier_id = 0
          => /\ last.code = 200
             /\ Len(last.report.rows) >= Cardinality(FinalizedInPeriod)

\* C21: editing a product's name, HSN code or GST rate, or a customer's name,
\* type or GSTIN, after an invoice was created leaves the rows, grouping keys
\* and totals of the product-HSN report and of the customer report unchanged,
\* for every period.
C21_ReportsIgnoreMasterEdits ==
    [][last'.op \in {"update_product", "update_customer"} /\ invoices' = invoices
        => \A from_date \in ReportDates, to_date \in ReportDates :
              /\ generate_product_hsn_report(invoices', products', from_date, to_date, 0)
                   = generate_product_hsn_report(invoices, products, from_date, to_date, 0)
              /\ generate_customer_report(invoices', customers', business',
                                          from_date, to_date, 0)
                   = generate_customer_report(invoices, customers, business,
                                              from_date, to_date, 0)]_vars

-----------------------------------------------------------------------------
(* Intra-state against inter-state tax on the same amount *)

\* the call made, repeated for a buyer in the seller's state and for a buyer
\* in another state
IntraStateCall ==
    calculate_gst(gst_in.amount, gst_in.rate, gst_in.seller, gst_in.seller)

InterStateCall ==
    calculate_gst(gst_in.amount, gst_in.rate, gst_in.seller,
                  CHOOSE s \in StateCodes : s # gst_in.seller)

-----------------------------------------------------------------------------
(* Order of the checks of create_invoice *)

\* the checks a request d can fail against the stored rows, in the order
\* claimed: whether it fails, the errors that report it, and the line
RequestChecks(d) ==
    LET cid == d.customer_id
        there == cid \in DOMAIN customers /\ customers[cid].is_active
        c == customers[cid]
        LineChecks(k) ==
            LET pid == d.items[k].product_id
                found == pid \in DOMAIN products /\ products[pid].is_active
                p == products[pid]
                taken == SumField(SelectSeq(SubSeq(d.items, 1, k - 1),
                                            LAMBDA it : it.product_id = pid), "quantity")
            IN  <<[bad |-> ~found, details |-> {"product_not_found"}, line |-> k],
                  [bad |-> found /\ (\/ p.gst_rate \notin ALLOWED_GST_RATES
                                     \/ ~validate_hsn_code(p.hsn_code)
                                     \/ p.price_paise < 0),
                   details |-> {"invalid_gst_rate", "invalid_hsn", "negative_price"},
                   line |-> k],
                  [bad |-> found /\ p.stock_quantity - taken < d.items[k].quantity,
                   details |-> {"insufficient_stock"}, line |-> k]>>
        RECURSIVE Lines(_)
        Lines(k) == IF k > Len(d.items) THEN <<>> ELSE LineChecks(k) \o Lines(k + 1)
    IN  <<[bad |-> d.invoice_date > Today, details |-> {"future_date"}, line |-> 0],
          [bad |-> Len(business.state_code) # 2,
           details |-> {"business_state_code"}, line |-> 0],
          [bad |-> ~there, details |-> {"customer_not_found"}, line |-> 0],
          [bad |-> there /\ (\/ c.customer_type = "B2B" /\ c.gstin = NoGstin
                             \/ c.customer_type = "B2B" /\ c.gstin # NoGstin
                                  /\ c.gstin[1] # c.state_code
                             \/ c.customer_type # "B2B" /\ c.gstin # NoGstin),
           details |-> {"b2b_without_gstin", "gstin_state_mismatch", "b2c_with_gstin"},
           line |-> 0],
          [bad |-> there /\ d.place_of_supply # None
                         /\ d.place_of_supply # c.state_code,
           details |-> {"place_of_supply_mismatch"}, line |-> 0]>>
        \o Lines(1)
        \o <<[bad |-> d.client_totals.given
                       /\ LET t == ServerTotals(d)
                          IN  \/ d.client_totals.total_taxable_value
                                   # PaiseToRupees(t.taxable_amount_paise)
                              \/ d.client_totals.total_gst
                                   # PaiseToRupees(t.total_tax_paise)
                              \/ d.client_totals.grand_total
                                   # PaiseToRupees(t.total_amount_paise),
              details |-> {"totals_mismatch"}, line |-> 0]>>

\* C26: create_invoice reports the earliest failed check in the order future
\* date, business state code, customer missing or inactive, customer
\* GSTIN/type inconsistency, place-of-supply mismatch, then per line in
\* request order product missing, product tax attributes, stock, then
\* client_totals; a rejected request stores nothing, and a request failing
\* no check is created.
C26_EarliestCheckReported ==
    [][last'.op = "create_invoice"
        => LET checks == RequestChecks(req')
               failed == {n \in DOMAIN checks : checks[n].bad}
           IN  IF failed = {}
               THEN last'.code = 201 /\ Len(invoices') = Len(invoices) + 1
               ELSE LET first == CHOOSE n \in failed : \A m \in failed : n <= m
                    IN  /\ last'.detail \in checks[first].details
                        /\ last'.line = checks[first].line
                        /\ last'.code \in {400, 404}
                        /\ invoices' = invoices
                        /\ products' = products
                        /\ business' = business]_vars

\* a request was refused for its customer's type without GSTIN while it also
\* named a wrong place of supply, an unknown product on its first line, a
\* product out of stock on its second and wrong client totals
C26_SeveralChecksFailed ==
    /\ last.op = "create_invoice"
    /\ last.detail = "b2b_without_gstin"
    /\ req.place_of_supply = "27"
    /\ customers[req.customer_id].state_code = "29"
    /\ Len(req.items) = 2
    /\ req.items[1].product_id \notin DOMAIN products
    /\ req.items[2].product_id = 2
    /\ req.client_totals.given
    /\ Cardinality({n \in DOMAIN RequestChecks(req) : RequestChecks(req)[n].bad}) >= 5

-----------------------------------------------------------------------------
(* Stock balance over invoices and purchases *)

\* whole units of the purchase lines from k on that a finalize credits to
\* product p: the lines whose HSN code p is the first active product to carry
RECURSIVE UnitsCredited(_, _, _)
UnitsCredited(items, k, p) ==
    IF k > Len(items) THEN 0
    ELSE LET ids == ActiveWithHsn(products, items[k].hsn_code)
         IN  (IF ids # {} /\ FirstId(ids) = p THEN items[k].quantity2 \div 2 ELSE 0)
             + UnitsCredited(items, k + 1, p)

\* units credited to p by the purchases from k on that were finalized
RECURSIVE UnitsPurchased(_, _)
UnitsPurchased(k, p) ==
    IF k > Len(purchases) THEN 0
    ELSE (IF purchases[k].finalized_at # NoTime
          THEN UnitsCredited(purchases[k].items, 1, p) ELSE 0)
         + UnitsPurchased(k + 1, p)

\* quantity of p on the lines of an invoice from line k on
RECURSIVE UnitsOnLines(_, _, _)
UnitsOnLines(items, k, p) ==
    IF k > Len(items) THEN 0
    ELSE (IF items[k].product_id = p THEN items[k].quantity ELSE 0)
         + UnitsOnLines(items, k + 1, p)

\* quantity of p on the invoices from k on that are not cancelled
RECURSIVE UnitsSold(_, _)
UnitsSold(k, p) ==
    IF k > Len(invoices) THEN 0
    ELSE (IF ~invoices[k].is_cancelled
          THEN UnitsOnLines(invoices[k].items, 1, p) ELSE 0)
         + UnitsSold(k + 1, p)

-----------------------------------------------------------------------------
(* The sales register split against the stored split *)

\* C30: for every stored invoice, whatever requests followed its creation, the
\* CGST/SGST/IGST split that the sales register derives when it is read (the
\* stored place_of_supply against the state code the business has now; half
\* of the stored total GST each, or all of it as IGST) equals the cgst, sgst
\* and igst stored on the invoice when it was created, the halving losing
\* nothing; the business profile still has the state code every invoice
\* recorded, because its update cannot change state_code.
C30_RegisterSplitEqualsStored ==
    \A i \in DOMAIN invoices :
       \E row \in {SalesRegisterRow(invoices[i], business)} :
          /\ row.cgst = invoices[i].cgst_paise
          /\ row.sgst = invoices[i].sgst_paise
          /\ row.igst = invoices[i].igst_paise
          /\ row.cgst + row.sgst + row.igst = invoices[i].total_gst_paise
          /\ business.state_code = invoices[i].business_snapshot.state_code

\* an inter-state invoice carrying IGST is stored and the business profile was
\* updated after it
C30_ProfileUpdatedAfterInvoice ==
    /\ last.op = "update_business_profile"
    /\ business.name = "n2"
    /\ \E i \in DOMAIN invoices :
          /\ invoices[i].igst_paise > 0
          /\ invoices[i].place_of_supply # business.state_code

-----------------------------------------------------------------------------
(* Properties of concurrent requests *)

\* C22: when create_invoice requests run concurrently, each in its own
\* session and transaction, no interleaving leads to a committed state in
\* which two persisted invoices carry the same invoice_number.
C22_CommittedNumbersDistinct ==
    \A i, j \in DOMAIN invoices :
       i # j => invoices[i].invoice_number # invoices[j].invoice_number

\* two requests drew the same number: one is stored with it, the other was
\* refused at its commit
C22_CollisionRefused ==
    \E w, v \in Workers :
       /\ sessions[w].op = "create_invoice" /\ sessions[w].res.code = 201
       /\ sessions[v].op = "create_invoice"
       /\ sessions[v].res.detail = "integrity_error"
       /\ Len(invoices) = 1

\* C23: the read-and-increment of current_invoice_number is serialized per
\* business: under any interleaving of concurrent create_invoice requests no
\* two requests in flight hold the same counter value, and none is rejected
\* because the number it drew was taken.
C23_CounterReadsSerialized ==
    /\ \A w, v \in Workers :
          w # v /\ sessions[w].pc = "lines" /\ sessions[v].pc = "lines"
             => sessions[w].business.current_invoice_number
                   # sessions[v].business.current_invoice_number
    /\ \A w \in Workers : sessions[w].res.detail # "integrity_error"

C27_CancelledAtMostOnce ==
    /\ \A p \in DOMAIN products :
          products[p].stock_quantity <= SeededStock(p) - UnitsSold(1, p)
    /\ \A w, v \in Workers :
          /\ w # v
          /\ sessions[w].op = "cancel_invoice" /\ sessions[v].op = "cancel_invoice"
          /\ sessions[w].invoice_id = sessions[v].invoice_id
          /\ sessions[w].res.code = 200
          => sessions[v].res.code # 200

\* C28: when create_invoice raises after the stock of some lines was already
\* decremented on the caller's session, those pending decrements are
\* discarded: a later successful create_invoice or cancel_invoice on the same
\* session commits only its own stock changes, so the stored stock of every
\* product stays its initial stock minus the quantities on the invoices that
\* stand.
C28_FailedRequestLeavesNoStockChange ==
    \A p \in DOMAIN products :
       products[p].stock_quantity = SeededStock(p) - UnitsSold(1, p)

====
